---- MODULE Spec2Model ----
(***************************************************************************)
(* Oracle v2: knowledge store (oracle_documents / oracle_fts), indexer,    *)
(* learn path, telemetry tables, server launcher lock and hybrid search.   *)
(***************************************************************************)
EXTENDS Integers, Sequences, FiniteSets, Bags, TLC

(***************************************************************************)
(* Bounds of the model                                                     *)
(***************************************************************************)
MaxDay == 2          \* calendar days the wall clock passes through
MaxCalls == 3        \* handler calls and indexer runs started in one behaviour
MaxTicks == 3        \* ticks of the launcher's clock
MaxQueryLen == 3     \* characters of a query handed to the sanitizers

NULL == "NULL"   \* SQL NULL in a text column
NULL_TS == 0      \* SQL NULL in a timestamp column (the clock starts at 1)

Min(a, b) == IF a < b THEN a ELSE b

(***************************************************************************)
(* Strings are sequences of one-character strings.                         *)
(***************************************************************************)
SLUG_LEN == 50

LowerOf(c) == IF c = "A" THEN "a" ELSE IF c = "B" THEN "b" ELSE c

IsSlugChar(c) == c \in {"a", "b", "0", "1", "2", "3", " ", "-"}

RECURSIVE MapLower(_)
MapLower(s) == IF s = <<>> THEN <<>> ELSE <<LowerOf(Head(s))>> \o MapLower(Tail(s))

RECURSIVE KeepSlugChars(_)
KeepSlugChars(s) ==
  IF s = <<>> THEN <<>>
  ELSE (IF IsSlugChar(Head(s)) THEN <<Head(s)>> ELSE <<>>) \o KeepSlugChars(Tail(s))

\* replace(/\s+/g, '-'): every run of whitespace becomes one dash
RECURSIVE SpacesToDash(_)
SpacesToDash(s) ==
  IF s = <<>> THEN <<>>
  ELSE IF Head(s) = " "
       THEN IF Len(s) > 1 /\ s[2] = " " THEN SpacesToDash(Tail(s))
            ELSE <<"-">> \o SpacesToDash(Tail(s))
       ELSE <<Head(s)>> \o SpacesToDash(Tail(s))

\* replace(/-+/g, '-'): every run of dashes becomes one dash
RECURSIVE CollapseDashes(_)
CollapseDashes(s) ==
  IF s = <<>> THEN <<>>
  ELSE IF Head(s) = "-" /\ Len(s) > 1 /\ s[2] = "-" THEN CollapseDashes(Tail(s))
       ELSE <<Head(s)>> \o CollapseDashes(Tail(s))

\* replace(/^-|-$/g, ''): one leading and one trailing dash removed
TrimDash(s) ==
  LET a == IF s # <<>> /\ Head(s) = "-" THEN Tail(s) ELSE s
  IN  IF a # <<>> /\ a[Len(a)] = "-" THEN SubSeq(a, 1, Len(a) - 1) ELSE a

Slug(pattern) ==
  TrimDash(CollapseDashes(SpacesToDash(KeepSlugChars(MapLower(
      SubSeq(pattern, 1, Min(SLUG_LEN, Len(pattern))))))))

DateStr(day) == IF day = 1 THEN <<"1">> ELSE IF day = 2 THEN <<"2">> ELSE <<"3">>

\* `${dateStr}_${slug}` : the stem of the learning file and the tail of its id
LearnStem(day, pattern) == DateStr(day) \o <<"_">> \o Slug(pattern)

(***************************************************************************)
(* Markdown corpus.  A file is its stem plus the list of its sections (the *)
(* pieces between the heading lines the parser splits on); a section is    *)
(* the length of its body and the number of its bullet lines.              *)
(***************************************************************************)
Sec(bodyLen, bulletCount) == [body |-> bodyLen, bullets |-> bulletCount]

RETRO_MIN_BODY == 50

DocId(kind, stem, index, sub) == [kind |-> kind, stem |-> stem, index |-> index, sub |-> sub]

Doc(id, type, file) == [id |-> id, type |-> type, source_file |-> file]

SrcFile(tree, dir, stem) == [tree |-> tree, dir |-> dir, stem |-> stem]

RECURSIVE BulletDocs(_, _, _, _)
BulletDocs(stem, index, n, b) ==
  IF b >= n THEN <<>>
  ELSE <<Doc(DocId("resonance", stem, index, b), "principle", SrcFile("resonance", <<>>, stem))>>
       \o BulletDocs(stem, index, n, b + 1)

RECURSIVE ResonanceSections(_, _, _)
ResonanceSections(stem, secs, i) ==
  IF i > Len(secs) THEN <<>>
  ELSE (IF secs[i].body = 0 THEN <<>>
        ELSE <<Doc(DocId("resonance", stem, i - 1, -1), "principle", SrcFile("resonance", <<>>, stem))>>
             \o BulletDocs(stem, i - 1, secs[i].bullets, 0))
       \o ResonanceSections(stem, secs, i + 1)

parseResonanceFile(f) == ResonanceSections(f.stem, f.sections, 1)

RECURSIVE LearningSections(_, _, _)
LearningSections(stem, secs, i) ==
  IF i > Len(secs) THEN <<>>
  ELSE (IF secs[i].body = 0 THEN <<>>
        ELSE <<Doc(DocId("learning", stem, i - 1, -1), "learning", SrcFile("learnings", <<>>, stem))>>)
       \o LearningSections(stem, secs, i + 1)

parseLearningFile(f) ==
  LET docs == LearningSections(f.stem, f.sections, 1)
  IN  IF Len(docs) = 0
      THEN <<Doc(DocId("learning", f.stem, -1, -1), "learning", SrcFile("learnings", <<>>, f.stem))>>
      ELSE docs

RECURSIVE RetroSections(_, _, _, _)
RetroSections(dir, stem, secs, i) ==
  IF i > Len(secs) THEN <<>>
  ELSE (IF secs[i].body = 0 \/ secs[i].body < RETRO_MIN_BODY THEN <<>>
        ELSE <<Doc(DocId("retro", stem, i - 1, -1), "retro", SrcFile("retrospectives", dir, stem))>>)
       \o RetroSections(dir, stem, secs, i + 1)

\* the id uses path.basename only: the directory of the file is not part of it
parseRetroFile(f) == RetroSections(f.dir, f.stem, f.sections, 1)

\* a directory listing, in a fixed order
RECURSIVE ListDir(_)
ListDir(files) ==
  IF files = {} THEN <<>>
  ELSE LET f == CHOOSE x \in files : TRUE IN <<f>> \o ListDir(files \ {f})

RECURSIVE ParseAll(_, _, _)
ParseAll(listing, kind, i) ==
  IF i > Len(listing) THEN <<>>
  ELSE (CASE kind = "resonance" -> parseResonanceFile(listing[i])
          [] kind = "learnings" -> parseLearningFile(listing[i])
          [] OTHER -> parseRetroFile(listing[i]))
       \o ParseAll(listing, kind, i + 1)

(***************************************************************************)
(* State                                                                   *)
(***************************************************************************)
VARIABLES
  today,             \* wall clock (Date.now()), counted in days
  files,             \* the markdown corpus under <repoRoot>/ψ/memory
  oracle_documents,  \* metadata table, PRIMARY KEY id
  oracle_fts,        \* FTS5 virtual table: a bag of ids (no key on id)
  indexing_status,   \* the singleton row id = 1
  chroma,            \* the vector collection oracle_knowledge: id and type of every entry
  idx,               \* indexer processes (OracleIndexer.index)
  lrn,               \* learn calls (handleLearn)
  calls,             \* handler calls and indexer runs started so far
  rows,              \* telemetry, trace, forum and decision tables: name -> rows in rowid order
  reply,             \* the last trace or decision call: its input and what it returned
  trc,               \* createTrace calls of the tool-server processes, statement by statement
  search,            \* the last search request and its response
  disk,              \* files and symbolic links on the host, in and around the repo root
  served,            \* the last /file request and its response
  clock,             \* Date.now() as the launcher sees it, in milliseconds
  lockFile,          \* <dataDir>/oracle-http.lock
  pidFile,           \* <dataDir>/oracle-http.pid
  lnch,              \* ensureServerRunning calls
  srv                \* HTTP server processes

storeVars == <<today, files, oracle_documents, oracle_fts, indexing_status, chroma, idx, lrn>>
sideVars == <<rows, reply, trc>>
searchVars == <<search, disk, served>>
lockVars == <<clock, lockFile, pidFile, lnch, srv>>
nonStore == <<sideVars, searchVars, lockVars>>

\* indexer processes (CLI runs); a run takes the lowest free slot
Indexers == {1, 2}
\* one learn call at a time in each server process: the HTTP server and the
\* stdio tool server share the store file and the knowledge root
Learners == {"http", "mcp"}

\* patterns handed to learn: they differ but share a slug
Patterns == {<<"a", " ", "b">>, <<"A", "-", "-", "b", "!">>}

File(stem, sections) == [stem |-> stem, sections |-> sections]
RetroFile(dir, stem, sections) == [dir |-> dir, stem |-> stem, sections |-> sections]

Corpora ==
  { \* one principle with one bullet
    [resonanceExists |-> TRUE,
     resonance |-> {File(<<"r">>, <<Sec(9, 1)>>)},
     learnings |-> {},
     retros |-> {}],
    \* two retrospectives that share a basename in different month directories
    [resonanceExists |-> TRUE,
     resonance |-> {},
     learnings |-> {},
     retros |-> {RetroFile(<<"1">>, <<"s">>, <<Sec(60, 0)>>),
                 RetroFile(<<"2">>, <<"s">>, <<Sec(60, 0), Sec(10, 0)>>)}],
    \* a knowledge root without a resonance directory
    [resonanceExists |-> FALSE,
     resonance |-> {},
     learnings |-> {File(<<"s">>, <<Sec(0, 0)>>)},
     retros |-> {}] }

IdleIndexer == [pc |-> "idle", collection |-> FALSE, documents |-> <<>>, k |-> 0]
IdleLearner == [pc |-> "idle", pattern |-> <<>>, stem |-> <<>>, origin |-> NULL, project |-> NULL,
                result |-> "none"]

InitStatus == [is_indexing |-> FALSE, progress_current |-> 0, progress_total |-> 0,
               started_at |-> NULL_TS, completed_at |-> NULL_TS, error |-> NULL]

StoreInit ==
  /\ today = 1
  /\ files \in Corpora
  /\ oracle_documents = {}
  /\ oracle_fts = EmptyBag
  /\ indexing_status = InitStatus
  /\ chroma = {}
  /\ idx = [i \in Indexers |-> IdleIndexer]
  /\ lrn = [l \in Learners |-> IdleLearner]
  /\ calls = 0

DocIds == {r.id : r \in oracle_documents}
FtsIds == BagToSet(oracle_fts)
FtsCount(id) == CopiesIn(id, oracle_fts)

(***************************************************************************)
(* Indexer (OracleIndexer)                                                 *)
(***************************************************************************)
setIndexingStatus(st, isIndexing, current, total, error, now) ==
  [is_indexing |-> isIndexing,
   progress_current |-> current,
   progress_total |-> total,
   started_at |-> IF isIndexing /\ st.started_at = NULL_TS THEN now ELSE st.started_at,
   completed_at |-> IF ~isIndexing THEN now ELSE NULL_TS,
   error |-> error]

\* index(), first statement: setIndexingStatus(true, 0, 100)
IndexStart(i) ==
  /\ idx[i].pc \in {"idle", "done", "failed"}
  /\ \A j \in Indexers : j < i => idx[j].pc \notin {"idle", "done", "failed"}
  /\ calls < MaxCalls
  /\ calls' = calls + 1
  /\ indexing_status' = setIndexingStatus(indexing_status, TRUE, 0, 100, NULL, today)
  /\ idx' = [idx EXCEPT ![i] = [IdleIndexer EXCEPT !.pc = "clear_fts"]]
  /\ UNCHANGED nonStore
  /\ UNCHANGED <<today, files, oracle_documents, oracle_fts, chroma, lrn>>

\* DELETE FROM oracle_fts
IndexClearFts(i) ==
  /\ idx[i].pc = "clear_fts"
  /\ oracle_fts' = EmptyBag
  /\ idx' = [idx EXCEPT ![i].pc = "clear_docs"]
  /\ UNCHANGED nonStore
  /\ UNCHANGED <<today, files, oracle_documents, indexing_status, chroma, lrn, calls>>

\* DELETE FROM oracle_documents
IndexClearDocs(i) ==
  /\ idx[i].pc = "clear_docs"
  /\ oracle_documents' = {}
  /\ idx' = [idx EXCEPT ![i].pc = "chroma_init"]
  /\ UNCHANGED nonStore
  /\ UNCHANGED <<today, files, oracle_fts, indexing_status, chroma, lrn, calls>>

\* deleteCollection + getOrCreateCollection, or the catch: collection = null
IndexChromaInit(i) ==
  /\ idx[i].pc = "chroma_init"
  /\ \E reachable \in BOOLEAN :
       /\ chroma' = IF reachable THEN {} ELSE chroma
       /\ idx' = [idx EXCEPT ![i].pc = "scan_resonance", ![i].collection = reachable]
  /\ UNCHANGED nonStore
  /\ UNCHANGED <<today, files, oracle_documents, oracle_fts, indexing_status, lrn, calls>>

\* indexResonance(): readdirSync throws when the directory is missing, and
\* index() has no handler, so the run ends there
IndexResonance(i) ==
  /\ idx[i].pc = "scan_resonance"
  /\ IF files.resonanceExists
     THEN idx' = [idx EXCEPT ![i].pc = "scan_learnings",
                             ![i].documents = ParseAll(ListDir(files.resonance), "resonance", 1)]
     ELSE idx' = [idx EXCEPT ![i] = [IdleIndexer EXCEPT !.pc = "failed"]]
  /\ UNCHANGED nonStore
  /\ UNCHANGED <<today, files, oracle_documents, oracle_fts, indexing_status, chroma, lrn,
                 calls>>

IndexLearnings(i) ==
  /\ idx[i].pc = "scan_learnings"
  /\ idx' = [idx EXCEPT ![i].pc = "scan_retros",
                        ![i].documents = @ \o ParseAll(ListDir(files.learnings), "learnings", 1)]
  /\ UNCHANGED nonStore
  /\ UNCHANGED <<today, files, oracle_documents, oracle_fts, indexing_status, chroma, lrn,
                 calls>>

IndexRetrospectives(i) ==
  /\ idx[i].pc = "scan_retros"
  /\ LET docs == idx[i].documents \o ParseAll(ListDir(files.retros), "retros", 1)
     IN  idx' = [idx EXCEPT ![i].documents = docs,
                            ![i].k = 1,
                            ![i].pc = IF docs = <<>> THEN "chroma_upsert" ELSE "store_meta"]
  /\ UNCHANGED nonStore
  /\ UNCHANGED <<today, files, oracle_documents, oracle_fts, indexing_status, chroma, lrn,
                 calls>>

\* INSERT OR REPLACE INTO oracle_documents: the indexer writes no provenance
IndexedRow(d) == [id |-> d.id, type |-> d.type, source_file |-> d.source_file,
                  origin |-> NULL, project |-> NULL, created_by |-> NULL]

\* a REPLACE that empties the table first
InsertAfterTruncate(table, row) == {row}

InsertOrReplace(table, row) == {r \in table : r.id # row.id} \cup {row}

\* storeDocuments(): insertMeta.run for document k
IndexStoreMeta(i) ==
  /\ idx[i].pc = "store_meta"
  /\ oracle_documents' = InsertOrReplace(oracle_documents, IndexedRow(idx[i].documents[idx[i].k]))
  /\ idx' = [idx EXCEPT ![i].pc = "store_fts"]
  /\ UNCHANGED nonStore
  /\ UNCHANGED <<today, files, oracle_fts, indexing_status, chroma, lrn, calls>>

\* an FTS5 table has no key on id: the insert always adds a row
InsertFts(fts, id) == fts (+) SetToBag({id})

\* storeDocuments(): insertFts.run for document k
IndexStoreFts(i) ==
  /\ idx[i].pc = "store_fts"
  /\ oracle_fts' = InsertFts(oracle_fts, idx[i].documents[idx[i].k].id)
  /\ idx' = [idx EXCEPT ![i].k = @ + 1,
                        ![i].pc = IF idx[i].k < Len(idx[i].documents)
                                  THEN "store_meta" ELSE "chroma_upsert"]
  /\ UNCHANGED nonStore
  /\ UNCHANGED <<today, files, oracle_documents, indexing_status, chroma, lrn, calls>>

\* storeDocuments(): the batched upsert, skipped without a collection; a
\* failed batch is logged and the run goes on
IndexChromaUpsert(i) ==
  /\ idx[i].pc = "chroma_upsert"
  /\ chroma' = IF idx[i].collection
               THEN chroma \cup {[id |-> idx[i].documents[n].id, type |-> idx[i].documents[n].type] :
                                 n \in 1..Len(idx[i].documents)}
               ELSE chroma
  /\ idx' = [idx EXCEPT ![i].pc = "finish"]
  /\ UNCHANGED nonStore
  /\ UNCHANGED <<today, files, oracle_documents, oracle_fts, indexing_status, lrn, calls>>

\* index(), last statement: setIndexingStatus(false, n, n)
IndexFinish(i) ==
  /\ idx[i].pc = "finish"
  /\ LET n == Len(idx[i].documents)
     IN  indexing_status' = setIndexingStatus(indexing_status, FALSE, n, n, NULL, today)
  /\ idx' = [idx EXCEPT ![i] = [IdleIndexer EXCEPT !.pc = "done"]]
  /\ UNCHANGED nonStore
  /\ UNCHANGED <<today, files, oracle_documents, oracle_fts, chroma, lrn, calls>>

(***************************************************************************)
(* Learn (handleLearn of the HTTP handlers, OracleMCPServer.handleLearn)   *)
(***************************************************************************)
LearnId(stem) == DocId("learning", stem, -1, -1)

LearnFileName(stem) == SrcFile("learnings", <<>>, stem)

\* the markdown written by learn: front matter, "# title", the pattern and
\* the footer; no "## " heading, so the parser sees one section with a body
LearnFile(stem, pattern) == File(stem, <<Sec(Len(pattern) + 1, 0)>>)

\* a check that never finds the file
existsSyncNever(stem) == FALSE

existsSync(stem) == \E f \in files.learnings : f.stem = stem

\* writeFileSync / Bun.write: an existing file of that name is overwritten
WriteFile(dir, f) == {g \in dir : g.stem # f.stem} \cup {f}

\* the row learn inserts: the HTTP handler records provenance, the tool
\* server's INSERT names no provenance column
LearnedRow(variant, stem, origin, project) ==
  [id |-> LearnId(stem), type |-> "learning", source_file |-> LearnFileName(stem),
   origin |-> IF variant = "http" THEN origin ELSE NULL,
   project |-> IF variant = "http" THEN project ELSE NULL,
   created_by |-> IF variant = "http" THEN "oracle_learn" ELSE NULL]

\* origin and resolved project of a learn call: a universal learning, or one
\* a human recorded in project P
Provenances == {[origin |-> NULL, project |-> NULL], [origin |-> "human", project |-> "P"]}

\* slug and filename are computed, then the existsSync check
LearnStart(l) ==
  /\ lrn[l].pc \in {"idle", "done"}
  /\ calls < MaxCalls
  /\ calls' = calls + 1
  /\ \E pattern \in Patterns, prov \in Provenances :
       LET stem == LearnStem(today, pattern)
       IN  lrn' = [lrn EXCEPT ![l] =
                     IF existsSync(stem)
                     THEN [IdleLearner EXCEPT !.pc = "done", !.stem = stem,
                                              !.result = "File already exists"]
                     ELSE [IdleLearner EXCEPT
                             !.pc = "write", !.pattern = pattern, !.stem = stem,
                             !.origin = IF l = "http" THEN prov.origin ELSE NULL,
                             !.project = IF l = "http" THEN prov.project ELSE NULL]]
  /\ UNCHANGED nonStore
  /\ UNCHANGED <<today, files, oracle_documents, oracle_fts, indexing_status, chroma, idx>>

LearnWrite(l) ==
  /\ lrn[l].pc = "write"
  /\ files' = [files EXCEPT !.learnings = WriteFile(@, LearnFile(lrn[l].stem, lrn[l].pattern))]
  /\ lrn' = [lrn EXCEPT ![l].pc = "insert_doc"]
  /\ UNCHANGED nonStore
  /\ UNCHANGED <<today, oracle_documents, oracle_fts, indexing_status, chroma, idx, calls>>

\* a table with no key on id
KeyViolatedNever(table, id) == FALSE

\* id TEXT PRIMARY KEY: a plain INSERT of an id the table holds fails
KeyViolated(table, id) == id \in {r.id : r \in table}

\* INSERT INTO oracle_documents: a row with that id makes the statement throw
LearnInsertDoc(l) ==
  /\ lrn[l].pc = "insert_doc"
  /\ IF KeyViolated(oracle_documents, LearnId(lrn[l].stem))
     THEN /\ lrn' = [lrn EXCEPT ![l] = [IdleLearner EXCEPT !.pc = "done", !.stem = lrn[l].stem,
                                                           !.result = "constraint failed"]]
          /\ UNCHANGED oracle_documents
     ELSE /\ oracle_documents' = oracle_documents
                                   \cup {LearnedRow(l, lrn[l].stem, lrn[l].origin, lrn[l].project)}
          /\ lrn' = [lrn EXCEPT ![l].pc = "insert_fts"]
  /\ UNCHANGED nonStore
  /\ UNCHANGED <<today, files, oracle_fts, indexing_status, chroma, idx, calls>>

LearnInsertFts(l) ==
  /\ lrn[l].pc = "insert_fts"
  /\ oracle_fts' = InsertFts(oracle_fts, LearnId(lrn[l].stem))
  /\ lrn' = [lrn EXCEPT ![l].pc = IF l = "http" THEN "log" ELSE "return"]
  /\ UNCHANGED nonStore
  /\ UNCHANGED <<today, files, oracle_documents, indexing_status, chroma, idx, calls>>

\* the INSERT INTO oracle_documents throws (the database is locked by a
\* writer of another process, the disk is full): the handler has no catch
\* and the error is the call's answer
LearnInsertDocFails(l) ==
  /\ lrn[l].pc = "insert_doc"
  /\ lrn' = [lrn EXCEPT ![l] = [IdleLearner EXCEPT !.pc = "done", !.stem = lrn[l].stem,
                                                   !.result = "insert failed"]]
  /\ UNCHANGED nonStore
  /\ UNCHANGED <<today, files, oracle_documents, oracle_fts, indexing_status, chroma, idx,
                 calls>>

\* the INSERT INTO oracle_fts throws
LearnInsertFtsFails(l) ==
  /\ lrn[l].pc = "insert_fts"
  /\ lrn' = [lrn EXCEPT ![l] = [IdleLearner EXCEPT !.pc = "done", !.stem = lrn[l].stem,
                                                   !.result = "insert failed"]]
  /\ UNCHANGED nonStore
  /\ UNCHANGED <<today, files, oracle_documents, oracle_fts, indexing_status, chroma, idx,
                 calls>>

\* INSERT INTO <table>: the rowid is the position of the row
InsertRow(tables, name, row) == [tables EXCEPT ![name] = Append(@, row)]

logLearning(tables, documentId) == InsertRow(tables, "learn_log", [document_id |-> documentId])

\* the HTTP handler logs the learning; the tool server's handler has no such call
LearnLog(l) ==
  /\ lrn[l].pc = "log"
  /\ rows' = logLearning(rows, LearnId(lrn[l].stem))
  /\ UNCHANGED <<reply, trc, trc>>
  /\ lrn' = [lrn EXCEPT ![l].pc = "return"]
  /\ UNCHANGED <<searchVars, lockVars>>
  /\ UNCHANGED <<today, files, oracle_documents, oracle_fts, indexing_status, chroma, idx,
                 calls>>

LearnReturn(l) ==
  /\ lrn[l].pc = "return"
  /\ lrn' = [lrn EXCEPT ![l] = [IdleLearner EXCEPT !.pc = "done", !.stem = lrn[l].stem,
                                                   !.result = "success"]]
  /\ UNCHANGED nonStore
  /\ UNCHANGED <<today, files, oracle_documents, oracle_fts, indexing_status, chroma, idx,
                 calls>>

\* midnight (UTC) passes
NextDay ==
  /\ today < MaxDay
  /\ today' = today + 1
  /\ UNCHANGED nonStore
  /\ UNCHANGED <<files, oracle_documents, oracle_fts, indexing_status, chroma, idx, lrn,
                 calls>>

(***************************************************************************)
(* Search (handleSearch of the HTTP handlers, OracleMCPServer.handleSearch) *)
(* Scores are kept in thousandths.  What the FTS5 engine and the vector    *)
(* backend answer is an input of the call: a rank for every row, and       *)
(* either a failure or a set of neighbours at one distance.                *)
(***************************************************************************)
Modes == {"hybrid", "fts", "vector"}
Types == {"all", "learning"}
Projects == {NULL, "P", "Q"}
Ranks == {-4, 0}
\* the keyword ranks of the ranking searches: every whole rank down to -MaxRank
MaxRank == 4
RankRange == {-r : r \in 0..MaxRank}
Distances == {0, 300, 2000}
Causes == {"ECONNREFUSED"}

Abs(n) == IF n < 0 THEN -n ELSE n
Max(a, b) == IF a > b THEN a ELSE b

Hit(id, source, score) == [id |-> id, source |-> source, score |-> score]

DocOf(id) == CHOOSE r \in oracle_documents : r.id = id

\* f JOIN d ON f.id = d.id: the ids of the joined rows
JoinedIds == FtsIds \cap DocIds

RECURSIVE Repeat(_, _)
Repeat(x, n) == IF n <= 0 THEN <<>> ELSE <<x>> \o Repeat(x, n - 1)

\* ORDER BY rank over the joined rows: one row for every copy in oracle_fts
RECURSIVE OrderByRank(_, _)
OrderByRank(ids, rk) ==
  IF ids = {} THEN <<>>
  ELSE LET best == CHOOSE x \in ids : \A y \in ids : rk[x] <= rk[y]
       IN  Repeat(best, FtsCount(best)) \o OrderByRank(ids \ {best}, rk)

\* LIMIT n / slice(offset, offset + limit)
Slice(s, from, to) == SubSeq(s, from + 1, Min(to, Len(s)))

\* Array.prototype.sort with (a, b) => b.score - a.score: stable, descending
RECURSIVE InsertByScore(_, _)
InsertByScore(r, sorted) ==
  IF sorted = <<>> THEN <<r>>
  ELSE IF Head(sorted).score >= r.score THEN <<Head(sorted)>> \o InsertByScore(r, Tail(sorted))
       ELSE <<r>> \o sorted

RECURSIVE SortByScore(_)
SortByScore(s) ==
  IF s = <<>> THEN <<>> ELSE InsertByScore(s[Len(s)], SortByScore(SubSeq(s, 1, Len(s) - 1)))

RECURSIVE IndexOfId(_, _)
IndexOfId(s, id) ==
  IF s = <<>> THEN 0
  ELSE IF s[Len(s)].id = id THEN Len(s) ELSE IndexOfId(SubSeq(s, 1, Len(s) - 1), id)

\* Map.set(id, r): a known key keeps its place, a new key goes last
MapSet(s, r) ==
  LET k == IndexOfId(s, r.id)
  IN  IF k = 0 THEN Append(s, r) ELSE [s EXCEPT ![k] = r]

RECURSIVE MapOfAll(_)
MapOfAll(s) == IF s = <<>> THEN <<>> ELSE MapSet(MapOfAll(SubSeq(s, 1, Len(s) - 1)), s[Len(s)])

\* 1 / (1 + |rank|), clamped to [0, 1]
normalizeRank(rank) == Min(1000, Max(0, 1000 \div (1 + Abs(rank))))

\* the HTTP handlers' project filter on a documents row
ProjectVisible(project, resolvedProject) ==
  IF resolvedProject = NULL THEN project = NULL
  ELSE project = resolvedProject \/ project = NULL

TypeMatches(docType, type) == type = "all" \/ docType = type

\* the keyword half of the HTTP handler: COUNT(*) and the page of 2 * limit
HttpFtsIds(type, project) ==
  {id \in JoinedIds : TypeMatches(DocOf(id).type, type)
                      /\ ProjectVisible(DocOf(id).project, project)}

RECURSIVE SumCopies(_)
SumCopies(ids) ==
  IF ids = {} THEN 0
  ELSE LET x == CHOOSE y \in ids : TRUE IN FtsCount(x) + SumCopies(ids \ {x})

\* Math.exp(-0.3 * |rank|), in thousandths
normalizeFtsScore(rank) ==
  LET a == Abs(rank)
  IN  CASE a = 0 -> 1000 [] a = 1 -> 741 [] a = 2 -> 549 [] a = 3 -> 407 [] a = 4 -> 301
        [] a = 5 -> 223 [] a = 6 -> 165 [] a = 7 -> 122 [] a = 8 -> 91 [] a = 9 -> 67
        [] a = 10 -> 50

RECURSIVE ScoreRows(_, _, _)
ScoreRows(ids, rk, variant) ==
  IF ids = <<>> THEN <<>>
  ELSE <<Hit(Head(ids), "fts",
             IF variant = "http" THEN normalizeRank(rk[Head(ids)])
             ELSE normalizeFtsScore(rk[Head(ids)]))>>
       \o ScoreRows(Tail(ids), rk, variant)

\* what the vector backend answers: it is down, or it returns neighbours
VectorDown(cause) == [down |-> TRUE, cause |-> cause, hits |-> {}, distance |-> 0]
VectorHits(hits, d) == [down |-> FALSE, cause |-> NULL, hits |-> hits, distance |-> d]

VectorAnswers ==
  {VectorDown(c) : c \in Causes}
    \cup {VectorHits(h, d) : h \in SUBSET chroma, d \in Distances}

RECURSIVE SeqOf(_)
SeqOf(S) == IF S = {} THEN <<>> ELSE LET x == CHOOSE y \in S : TRUE IN <<x>> \o SeqOf(S \ {x})

\* client.query(query, 2 * limit, whereFilter): the neighbours of the asked type
ChromaQuery(answer, type, n) ==
  Slice(SeqOf({h \in answer.hits : TypeMatches(h.type, type)}), 0, n)

\* the HTTP handler maps a neighbour to similarity 1 - distance / 2, reading a
\* distance of 0 as 1, and keeps it only if its documents row passes the
\* project filter (an id without a documents row has no project at all)
RECURSIVE HttpVectorRows(_, _, _)
HttpVectorRows(hits, distance, project) ==
  IF hits = <<>> THEN <<>>
  ELSE LET h == Head(hits)
           d == IF distance = 0 THEN 1000 ELSE distance
       IN  (IF h.id \in DocIds /\ ProjectVisible(DocOf(h.id).project, project)
            THEN <<Hit(h.id, "vector", Max(0, 1000 - d \div 2))>> ELSE <<>>)
           \o HttpVectorRows(Tail(hits), distance, project)

\* combineSearchResults: the higher score plus 0.1 for a row found by both
RECURSIVE HttpMerge(_, _)
HttpMerge(seen, vector) ==
  IF vector = <<>> THEN seen
  ELSE LET r == Head(vector)
           k == IndexOfId(seen, r.id)
       IN  HttpMerge(IF k = 0 THEN Append(seen, r)
                     ELSE [seen EXCEPT ![k] =
                             Hit(r.id, "hybrid", Min(1000, Max(seen[k].score, r.score) + 100))],
                     Tail(vector))

combineSearchResults(fts, vector) == SortByScore(HttpMerge(MapOfAll(fts), vector))

\* queries: a plain word, and one made of an operator and a blank
Queries == {<<"a">>, <<"?", " ">>}

\* the characters the HTTP handler blanks out; the tool server adds . and /
HttpSpecials == {"?", "*", "+", "-", "(", ")", "^", "~", "\"", "'", ":"}
McpSpecials == HttpSpecials \cup {".", "/"}

\* a replace without the g flag: only the first operator is blanked
BlankOutFirst(q, specials) ==
  IF \E k \in 1..Len(q) : q[k] \in specials
  THEN LET k == CHOOSE n \in 1..Len(q) : q[n] \in specials /\ \A m \in 1..(n - 1) : q[m] \notin specials
       IN  [q EXCEPT ![k] = " "]
  ELSE q

\* replace(/[...]/g, ' ')
RECURSIVE BlankOut(_, _)
BlankOut(q, specials) ==
  IF q = <<>> THEN <<>>
  ELSE <<IF Head(q) \in specials THEN " " ELSE Head(q)>> \o BlankOut(Tail(q), specials)

\* replace(/\s+/g, ' ')
RECURSIVE CollapseSpaces(_)
CollapseSpaces(q) ==
  IF q = <<>> THEN <<>>
  ELSE IF Head(q) = " " /\ Len(q) > 1 /\ q[2] = " " THEN CollapseSpaces(Tail(q))
       ELSE <<Head(q)>> \o CollapseSpaces(Tail(q))

\* String.prototype.trim
RECURSIVE Trim(_)
Trim(q) ==
  IF q = <<>> THEN <<>>
  ELSE IF Head(q) = " " THEN Trim(Tail(q))
       ELSE IF q[Len(q)] = " " THEN Trim(SubSeq(q, 1, Len(q) - 1)) ELSE q

\* handleSearch of the HTTP handlers: safeQuery
safeQuery(query) == Trim(CollapseSpaces(BlankOut(query, HttpSpecials)))

\* sanitizeFtsQuery of the tool server: an empty result gives the query back
sanitizeFtsQuery(query) ==
  LET sanitized == Trim(CollapseSpaces(BlankOut(query, McpSpecials)))
  IN  IF sanitized = <<>> THEN query ELSE sanitized

\* the string bound to oracle_fts MATCH ? by either handler
KeywordQuery(variant, query) ==
  IF variant = "mcp" THEN sanitizeFtsQuery(query) ELSE safeQuery(query)

\* oracle_fts MATCH ?: FTS5 rejects an empty expression and a bare operator
FtsSyntaxError(q) == q = <<>> \/ \E k \in 1..Len(q) : q[k] \in McpSpecials

EmptyQuery == <<"Query cannot be empty">>
SyntaxError == <<"fts5: syntax error">>
NoError == <<>>

\* a handler that swallows what the keyword statement throws
KeywordErrorCaught(variant, query, mode) == NoError

\* what the handler throws before or at its keyword statement: neither
\* handler runs the statement inside a try
KeywordError(variant, query, mode) ==
  IF variant = "mcp" /\ Trim(query) = <<>> THEN EmptyQuery
  ELSE IF mode # "vector"
          /\ FtsSyntaxError(KeywordQuery(variant, query))
       THEN SyntaxError
       ELSE NoError

\* the warning texts, as the pieces they are concatenated from
Unavailable(cause) == <<"Vector search unavailable: ", cause, ". Using FTS5 only.">>
NoResults == <<"Vector search returned no results. Using FTS5 results.">>
NoWarning == <<>>

Response(variant, results, total, warning, mode) ==
  [variant |-> variant, ok |-> TRUE, error |-> NoError, results |-> results, total |-> total,
   warning |-> warning, mode |-> mode]

\* the call ends with a thrown error: there is no result list
Failure(variant, error, mode) ==
  [Response(variant, <<>>, 0, NoWarning, mode) EXCEPT !.ok = FALSE, !.error = error]

Request(query, mode, type, limit, offset, project, answer) ==
  [query |-> query, mode |-> mode, type |-> type, limit |-> limit, offset |-> offset,
   project |-> project, vector |-> answer]

\* handleSearch of the HTTP handlers, up to the logging calls
HttpFtsResults(req, rk) ==
  IF req.mode # "vector"
  THEN ScoreRows(Slice(OrderByRank(HttpFtsIds(req.type, req.project), rk), 0, 2 * req.limit),
                 rk, "http")
  ELSE <<>>

HttpVectorResults(req) ==
  IF req.mode # "fts" /\ ~req.vector.down
  THEN HttpVectorRows(ChromaQuery(req.vector, req.type, 2 * req.limit),
                      req.vector.distance, req.project)
  ELSE <<>>

HttpSearchResponse(req, rk) ==
  LET matched == HttpFtsIds(req.type, req.project)
      ftsTotal == IF req.mode # "vector" THEN SumCopies(matched) ELSE 0
      threw == req.mode # "fts" /\ req.vector.down
      combined == combineSearchResults(HttpFtsResults(req, rk), HttpVectorResults(req))
      error == KeywordError("http", req.query, req.mode)
  IN  IF error # NoError THEN Failure("http", error, req.mode)
      ELSE Response("http", Slice(combined, req.offset, req.offset + req.limit),
                    Max(ftsTotal, Len(combined)),
                    IF threw THEN Unavailable(req.vector.cause) ELSE NoWarning,
                    req.mode)

\* the keyword half of the tool server: a type filter and no project filter
McpFtsIds(type) == {id \in JoinedIds : TypeMatches(DocOf(id).type, type)}

RECURSIVE McpVectorRows(_, _)
McpVectorRows(hits, distance) ==
  IF hits = <<>> THEN <<>>
  ELSE <<Hit(Head(hits).id, "vector", distance)>> \o McpVectorRows(Tail(hits), distance)

\* vectorSearch of the tool server: its own catch answers every failure of
\* the backend with an empty list, so nothing is thrown to the caller
vectorSearch(answer, type, n) ==
  [threw |-> FALSE,
   results |-> IF answer.down THEN <<>>
               ELSE McpVectorRows(ChromaQuery(answer, type, n), answer.distance)]

\* score: 1 - (result.score || 0)
RECURSIVE NormalizeVector(_)
NormalizeVector(rs) ==
  IF rs = <<>> THEN <<>>
  ELSE <<Hit(Head(rs).id, "vector", 1000 - Head(rs).score)>> \o NormalizeVector(Tail(rs))

Entry(id, source, fts, vec) == [id |-> id, source |-> source, fts |-> fts, vec |-> vec]

RECURSIVE McpFtsEntries(_)
McpFtsEntries(rs) ==
  IF rs = <<>> THEN <<>>
  ELSE MapSet(McpFtsEntries(SubSeq(rs, 1, Len(rs) - 1)),
              Entry(rs[Len(rs)].id, "fts", rs[Len(rs)].score, 0))

RECURSIVE McpMerge(_, _)
McpMerge(map, vector) ==
  IF vector = <<>> THEN map
  ELSE LET r == Head(vector)
           k == IndexOfId(map, r.id)
       IN  McpMerge(IF k = 0 THEN Append(map, Entry(r.id, "vector", 0, r.score))
                    ELSE [map EXCEPT ![k] = Entry(r.id, "hybrid", map[k].fts, r.score)],
                    Tail(vector))

\* ((ftsWeight * fts) + (vectorWeight * vec)) * 1.1 with both weights 0.5; one
\* source alone keeps its score times its weight
HybridScore(e) ==
  CASE e.source = "hybrid" -> ((5 * e.fts + 5 * e.vec) * 11) \div 100
    [] e.source = "fts" -> e.fts \div 2
    [] OTHER -> e.vec \div 2

RECURSIVE ScoreEntries(_)
ScoreEntries(map) ==
  IF map = <<>> THEN <<>>
  ELSE <<Hit(Head(map).id, Head(map).source, HybridScore(Head(map)))>> \o ScoreEntries(Tail(map))

combineResults(fts, vector) == SortByScore(ScoreEntries(McpMerge(McpFtsEntries(fts), vector)))

\* OracleMCPServer.handleSearch; total is metadata.total
McpFtsResults(req, rk) ==
  IF req.mode # "vector"
  THEN ScoreRows(Slice(OrderByRank(McpFtsIds(req.type), rk), 0, 2 * req.limit), rk, "mcp")
  ELSE <<>>

McpVectorSearch(req) ==
  IF req.mode # "fts" THEN vectorSearch(req.vector, req.type, 2 * req.limit)
  ELSE [threw |-> FALSE, results |-> <<>>]

McpSearchResponse(req, rk) ==
  LET vs == McpVectorSearch(req)
      warning == IF req.mode = "fts" THEN NoWarning
                 ELSE IF vs.threw THEN Unavailable(req.vector.cause)
                 ELSE IF Len(vs.results) = 0 THEN NoResults ELSE NoWarning
      combined == combineResults(McpFtsResults(req, rk), NormalizeVector(vs.results))
      error == KeywordError("mcp", req.query, req.mode)
  IN  IF error # NoError THEN Failure("mcp", error, req.mode)
      ELSE Response("mcp", Slice(combined, req.offset, req.offset + req.limit),
                    Len(combined), warning, req.mode)

Limits == {1, 2}
Offsets == {0, 1}

Requests ==
  {Request(q, m, t, l, o, p, a) :
     q \in Queries, m \in Modes, t \in Types, l \in Limits, o \in Offsets, p \in Projects,
     a \in VectorAnswers}

logSearch(tables, type, mode, resultsCount) ==
  InsertRow(tables, "search_log", [type |-> type, mode |-> mode, results_count |-> resultsCount])

logDocumentAccess(tables, documentId, accessType) ==
  InsertRow(tables, "document_access", [document_id |-> documentId, access_type |-> accessType])

\* results.forEach(r => logDocumentAccess(r.id, 'search'))
RECURSIVE LogAccesses(_, _)
LogAccesses(tables, results) ==
  IF results = <<>> THEN tables
  ELSE LogAccesses(logDocumentAccess(tables, Head(results).id, "search"), Tail(results))

NoSearch == [req |-> Request(<<>>, "none", "all", 0, 0, NULL, VectorDown(NULL)),
             rk |-> <<>>,
             resp |-> [Response("none", <<>>, 0, NoWarning, "none") EXCEPT !.ok = FALSE]]

(***************************************************************************)
(* GET /file of the HTTP server.  A name is a string of characters, a path *)
(* a sequence of names below "/".                                          *)
(***************************************************************************)
DotDot == <<".", ".">>

\* ORACLE_REPO_ROOT: /r, with the directories /rx and /e beside it
REPO_ROOT == << <<"r">> >>
Sibling == << <<"r", "x">> >>
Elsewhere == << <<"e">> >>

\* the files and the symbolic links (of directories) that may come to exist
DiskFiles == {REPO_ROOT \o << <<"f">> >>, Sibling \o << <<"f">> >>, Elsewhere \o << <<"f">> >>}
DiskLinks == {[at |-> REPO_ROOT \o << <<"l">> >>, to |-> Elsewhere],
              [at |-> REPO_ROOT \o << <<"d">> >>, to |-> Sibling]}

\* query.path, split at "/": nothing, f, ../e/f, ../rx/f, l/f, d/f and /e/f
FilePaths ==
  { <<>>,
    << <<"f">> >>,
    << DotDot, <<"e">>, <<"f">> >>,
    << DotDot, <<"r", "x">>, <<"f">> >>,
    << <<"l">>, <<"f">> >>,
    << <<"d">>, <<"f">> >>,
    << <<>>, <<"e">>, <<"f">> >> }

\* path.normalize: empty names and "." are dropped, ".." takes the name
\* before it away
RECURSIVE normalize(_, _)
normalize(done, rest) ==
  IF rest = <<>> THEN done
  ELSE LET name == Head(rest)
       IN  IF name = <<>> \/ name = <<".">> THEN normalize(done, Tail(rest))
           ELSE IF name = DotDot
                THEN normalize(IF done = <<>> THEN <<>> ELSE SubSeq(done, 1, Len(done) - 1),
                               Tail(rest))
                ELSE normalize(Append(done, name), Tail(rest))

\* path.join(REPO_ROOT, filePath)
join(root, filePath) == normalize(<<>>, root \o filePath)

\* the location a path names once every symbolic link on it is followed
RECURSIVE resolveLinks(_, _)
resolveLinks(d, path) ==
  LET hit == {k \in 1..Len(path) : \E l \in d.links : l.at = SubSeq(path, 1, k)}
  IN  IF hit = {} THEN path
      ELSE LET k == CHOOSE n \in hit : \A m \in hit : n <= m
               l == CHOOSE x \in d.links : x.at = SubSeq(path, 1, k)
           IN  resolveLinks(d, l.to \o SubSeq(path, k + 1, Len(path)))

\* fs.existsSync(fullPath)
fileExistsSync(d, path) == resolveLinks(d, path) \in d.files

\* fs.realpathSync(fullPath), and path.resolve(fullPath) in the catch
realPathOf(d, fullPath) ==
  IF fileExistsSync(d, fullPath) THEN resolveLinks(d, fullPath) ELSE fullPath

\* the string of a path: "/" and the name, for every name
RECURSIVE PathString(_)
PathString(path) ==
  IF path = <<>> THEN <<>> ELSE <<"/">> \o Head(path) \o PathString(Tail(path))

\* String.prototype.startsWith
startsWith(s, prefix) == Len(prefix) <= Len(s) /\ SubSeq(s, 1, Len(prefix)) = prefix

MissingPath == <<"Missing path parameter">>
OutsideBounds == <<"Invalid path: outside repository bounds">>
FileNotFound == <<"File not found">>
NoContent == <<>>

\* case '/file': content is the file that was read, named by its location
FileResult(d, filePath) ==
  LET fullPath == join(REPO_ROOT, filePath)
      realPath == realPathOf(d, fullPath)
      realRepoRoot == resolveLinks(d, REPO_ROOT)
  IN  IF filePath = <<>>
      THEN [error |-> MissingPath, content |-> NoContent, realPath |-> realPath]
      ELSE IF ~startsWith(PathString(realPath), PathString(realRepoRoot))
      THEN [error |-> OutsideBounds, content |-> NoContent, realPath |-> realPath]
      ELSE IF fileExistsSync(d, fullPath)
      THEN [error |-> NoError, content |-> resolveLinks(d, fullPath), realPath |-> realPath]
      ELSE [error |-> FileNotFound, content |-> NoContent, realPath |-> realPath]

NoServed == [path |-> <<>>,
             result |-> [error |-> NoError, content |-> NoContent, realPath |-> REPO_ROOT]]

\* a file is created on the host
DiskCreate ==
  /\ \E f \in DiskFiles \ disk.files : disk' = [disk EXCEPT !.files = @ \cup {f}]
  /\ UNCHANGED <<search, served, calls, sideVars, lockVars, storeVars>>

\* a symbolic link is created in the repo root
DiskSymlink ==
  /\ \E l \in DiskLinks \ disk.links : disk' = [disk EXCEPT !.links = @ \cup {l}]
  /\ UNCHANGED <<search, served, calls, sideVars, lockVars, storeVars>>

\* GET /file?path=...
HttpFile ==
  /\ \E filePath \in FilePaths :
       served' = [path |-> filePath, result |-> FileResult(disk, filePath)]
  /\ UNCHANGED <<search, disk, calls, sideVars, lockVars, storeVars>>

SearchInit ==
  /\ search = NoSearch
  /\ disk = [files |-> {}, links |-> {}]
  /\ served = NoServed

\* GET /api/search: the handler answers and logs the search and every hit
HttpSearchRanked(requests, ranks) ==
  /\ calls < MaxCalls
  /\ calls' = calls + 1
  /\ \E req \in requests, rk \in [JoinedIds -> ranks] :
       LET resp == HttpSearchResponse(req, rk)
       IN  /\ search' = [req |-> req, rk |-> rk, resp |-> resp]
           /\ rows' = IF resp.ok
                      THEN LogAccesses(logSearch(rows, req.type, req.mode, resp.total),
                                       resp.results)
                      ELSE rows
  /\ UNCHANGED <<disk, served, reply, trc, lockVars, storeVars>>

HttpSearchOver(requests) == HttpSearchRanked(requests, Ranks)

HttpSearch == HttpSearchOver(Requests)

\* first pages of keyword searches
KeywordRequests ==
  {r \in Requests : r.mode = "fts" /\ r.offset = 0 /\ r.limit = 2 /\ r.vector.down
                    /\ r.project = NULL}

\* the oracle_search tool: the handler answers and writes to the console only
McpSearchRanked(requests, ranks) ==
  /\ calls < MaxCalls
  /\ calls' = calls + 1
  /\ \E req \in requests, rk \in [JoinedIds -> ranks] :
       /\ req.project = NULL
       /\ search' = [req |-> req, rk |-> rk, resp |-> McpSearchResponse(req, rk)]
  /\ UNCHANGED <<disk, served, sideVars, lockVars, storeVars>>

McpSearchOver(requests) == McpSearchRanked(requests, Ranks)

McpSearch == McpSearchOver(Requests)

\* first pages of searches over every type, in every mode and with every
\* answer of the vector backend
FallbackRequests ==
  {r \in Requests : r.offset = 0 /\ r.limit = 2 /\ r.type = "all" /\ r.project = NULL
                    /\ r.vector.distance # 2000}

\* first pages of searches for a plain word, with and without a project
ProjectRequests ==
  {r \in Requests : r.offset = 0 /\ r.limit = 2 /\ r.type = "all" /\ r.query = <<"a">>
                    /\ r.vector.distance # 2000}

\* pages of one result each, for a plain word: keyword searches, and hybrid
\* searches the vector backend answers
PageRequests ==
  {r \in Requests :
     /\ r.limit = 1 /\ r.type = "all" /\ r.query = <<"a">> /\ r.project = NULL
     /\ \/ r.mode = "fts" /\ r.vector.down
        \/ r.mode = "hybrid" /\ ~r.vector.down /\ r.vector.distance = 300}

(***************************************************************************)
(* Consult, traces, forum threads, decisions                               *)
(***************************************************************************)
Tables == {"search_log", "document_access", "consult_log", "learn_log",
           "trace_log", "forum_messages", "decisions"}

\* tool-server processes on one store (one per client session)
Tracers == {1, 2}

IdleTracer == [pc |-> "idle", traceId |-> 0, parent |-> 0, children |-> <<>>]

NoReply == [n |-> 0, op |-> "none", id |-> 0, from |-> "none", to |-> "none",
            promoteToLearning |-> FALSE, learningId |-> NULL, error |-> NoError]

SideInit ==
  /\ rows = [t \in Tables |-> <<>>]
  /\ reply = NoReply
  /\ trc = [p \in Tracers |-> IdleTracer]

logConsult(tables, principlesFound, patternsFound) ==
  InsertRow(tables, "consult_log",
            [principles_found |-> principlesFound, patterns_found |-> patternsFound])

\* rows of one type returned by "... AND d.type = ? ORDER BY rank LIMIT n"
FtsOfType(type, n) == Slice(OrderByRank(McpFtsIds(type), [id \in JoinedIds |-> 0]), 0, n)

IdsOf(s) == {s[k].id : k \in 1..Len(s)}
Elems(s) == {s[k] : k \in 1..Len(s)}

\* mergeConsultResults(fts, vector, 3): distinct ids of both lists, at most 3
MergedCount(ftsIds, vectorIds, n) == Min(n, Cardinality(ftsIds \cup vectorIds))

\* handleConsult of the HTTP handlers: two keyword queries, the vector query
\* inside a try / catch, then logConsult
HttpConsult ==
  /\ calls < MaxCalls
  /\ calls' = calls + 1
  /\ \E answer \in VectorAnswers :
       LET near(type) == IF answer.down THEN {}
                         ELSE IdsOf(ChromaQuery(answer, type, 5))
           fts(type) == Elems(FtsOfType(type, 5))
       IN  rows' = logConsult(rows, MergedCount(fts("principle"), near("principle"), 3),
                              MergedCount(fts("learning"), near("learning"), 3))
  /\ UNCHANGED <<reply, trc, searchVars, lockVars, storeVars>>

\* OracleMCPServer.handleConsult: two keyword queries LIMIT 3, then the INSERT
McpConsult ==
  /\ calls < MaxCalls
  /\ calls' = calls + 1
  /\ rows' = logConsult(rows, Len(FtsOfType("principle", 3)), Len(FtsOfType("learning", 3)))
  /\ UNCHANGED <<reply, trc, searchVars, lockVars, storeVars>>

TraceIds == {rows["trace_log"][k].trace_id : k \in 1..Len(rows["trace_log"])}

TraceRow(id) ==
  LET k == CHOOSE n \in 1..Len(rows["trace_log"]) : rows["trace_log"][n].trace_id = id
  IN  rows["trace_log"][k]

\* updateTraceChildren: the child is pushed onto the parent's child list
updateTraceChildren(log, parentId, childId) ==
  [k \in 1..Len(log) |->
     IF log[k].trace_id = parentId
     THEN [log[k] EXCEPT !.child_trace_ids = Append(@, childId)] ELSE log[k]]

\* an id no trace row carries (a parentTraceId the caller made up)
UnknownTrace == 99

\* a depth that ignores the parent
TraceDepthFlat(parent) == 0

\* createTrace, "Determine depth from parent": the parent's depth plus one
\* when its row is found
TraceDepth(parent) ==
  IF parent # 0 /\ parent \in TraceIds THEN TraceRow(parent).depth + 1 ELSE 0

\* createTrace: parent 0 stands for no parentTraceId; ids are fresh; the
\* parent's depth is read only when its row is found, the link is stored
\* either way
createTrace ==
  /\ calls < MaxCalls
  /\ calls' = calls + 1
  /\ \E parent \in {0, UnknownTrace} \cup TraceIds :
       LET traceId == Len(rows["trace_log"]) + 1
           depth == TraceDepth(parent)
           row == [trace_id |-> traceId, depth |-> depth, parent_trace_id |-> parent,
                   child_trace_ids |-> <<>>, status |-> "raw", awakening |-> NULL,
                   distilled_at |-> NULL_TS, distilled_to_id |-> NULL]
           inserted == Append(rows["trace_log"], row)
       IN  /\ rows' = [rows EXCEPT !["trace_log"] =
                         IF parent # 0 THEN updateTraceChildren(inserted, parent, traceId)
                         ELSE inserted]
           /\ reply' = [NoReply EXCEPT !.n = calls', !.op = "createTrace", !.id = traceId]
  /\ UNCHANGED <<trc, searchVars, lockVars, storeVars>>

\* createTrace, first statements: the depth is read and the row inserted
TraceInsert(p) ==
  /\ trc[p].pc = "idle"
  /\ calls < MaxCalls
  /\ calls' = calls + 1
  /\ \E parent \in {0, UnknownTrace} \cup TraceIds :
       LET traceId == Len(rows["trace_log"]) + 1
           row == [trace_id |-> traceId, depth |-> TraceDepth(parent),
                   parent_trace_id |-> parent, child_trace_ids |-> <<>>, status |-> "raw",
                   awakening |-> NULL, distilled_at |-> NULL_TS, distilled_to_id |-> NULL]
       IN  /\ rows' = [rows EXCEPT !["trace_log"] = Append(@, row)]
           /\ trc' = [trc EXCEPT ![p] = [IdleTracer EXCEPT
                                           !.pc = IF parent # 0 THEN "read" ELSE "idle",
                                           !.traceId = traceId, !.parent = parent]]
  /\ UNCHANGED <<reply, searchVars, lockVars, storeVars>>

\* updateTraceChildren: SELECT child_trace_ids of the parent
TraceReadChildren(p) ==
  /\ trc[p].pc = "read"
  /\ trc' = [trc EXCEPT ![p] =
                IF trc[p].parent \in TraceIds
                THEN [@ EXCEPT !.pc = "write",
                               !.children = TraceRow(trc[p].parent).child_trace_ids]
                ELSE IdleTracer]
  /\ UNCHANGED <<rows, reply, calls, searchVars, lockVars, storeVars>>

\* updateTraceChildren: UPDATE trace_log SET child_trace_ids = the list that
\* was read, with the child pushed onto it
TraceWriteChildren(p) ==
  /\ trc[p].pc = "write"
  /\ rows' = [rows EXCEPT !["trace_log"] =
                [k \in 1..Len(@) |->
                   IF @[k].trace_id = trc[p].parent
                   THEN [@[k] EXCEPT !.child_trace_ids = Append(trc[p].children, trc[p].traceId)]
                   ELSE @[k]]]
  /\ trc' = [trc EXCEPT ![p] = IdleTracer]
  /\ UNCHANGED <<reply, calls, searchVars, lockVars, storeVars>>

Awakenings == {"Freedom IS unity"}

\* distillTrace: one UPDATE, whatever promoteToLearning says; the value
\* returned carries no learningId
distillTrace ==
  /\ calls < MaxCalls
  /\ calls' = calls + 1
  /\ \E id \in TraceIds, awakening \in Awakenings, promoteToLearning \in BOOLEAN :
       /\ rows' = [rows EXCEPT !["trace_log"] =
                     [k \in 1..Len(@) |->
                        IF @[k].trace_id = id
                        THEN [@[k] EXCEPT !.status = "distilled", !.awakening = awakening,
                                          !.distilled_at = today]
                        ELSE @[k]]]
       /\ reply' = [NoReply EXCEPT !.n = calls', !.op = "distillTrace", !.id = id,
                                   !.promoteToLearning = promoteToLearning]
  /\ UNCHANGED <<trc, searchVars, lockVars, storeVars>>

\* handleThreadMessage: the incoming row, and an oracle reply unless the
\* sender is the oracle
handleThreadMessage ==
  /\ calls < MaxCalls
  /\ calls' = calls + 1
  /\ \E role \in {"human", "oracle"} :
       LET incoming == InsertRow(rows, "forum_messages", [role |-> role])
       IN  rows' = IF role # "oracle"
                   THEN InsertRow(incoming, "forum_messages", [role |-> "oracle"])
                   ELSE incoming
  /\ UNCHANGED <<reply, trc, searchVars, lockVars, storeVars>>

DecisionEdges ==
  [pending |-> {"parked", "researching", "decided", "closed"},
   parked |-> {"pending", "researching", "decided", "closed"},
   researching |-> {"pending", "parked", "decided", "closed"},
   decided |-> {"implemented", "closed"},
   implemented |-> {"closed"},
   closed |-> {}]

InvalidTransition == <<"Invalid transition">>

\* a check that lets every transition through
isValidTransitionAny(from, to) == TRUE

isValidTransition(from, to) == to \in DecisionEdges[from]

createDecision ==
  /\ calls < MaxCalls
  /\ calls' = calls + 1
  /\ rows' = InsertRow(rows, "decisions", [status |-> "pending", decided_at |-> NULL_TS])
  /\ reply' = [NoReply EXCEPT !.n = calls', !.op = "createDecision",
                              !.id = Len(rows["decisions"]) + 1, !.to = "pending"]
  /\ UNCHANGED <<trc, searchVars, lockVars, storeVars>>

\* transitionStatus: an edge outside the graph is rejected with a domain
\* error; entering decided stamps decided_at
transitionStatus ==
  /\ calls < MaxCalls
  /\ calls' = calls + 1
  /\ \E k \in 1..Len(rows["decisions"]), newStatus \in DOMAIN DecisionEdges :
       LET from == rows["decisions"][k].status
           valid == isValidTransition(from, newStatus)
       IN  /\ rows' = IF valid
                      THEN [rows EXCEPT !["decisions"][k] =
                              [@ EXCEPT !.status = newStatus,
                                        !.decided_at = IF newStatus = "decided"
                                                       THEN today ELSE @]]
                      ELSE rows
           /\ reply' = [NoReply EXCEPT !.n = calls', !.op = "transitionStatus", !.id = k,
                                       !.from = from, !.to = newStatus,
                                       !.error = IF valid THEN NoError ELSE InvalidTransition]
  /\ UNCHANGED <<trc, searchVars, lockVars, storeVars>>

(***************************************************************************)
(* Launcher (ensureServerRunning) and HTTP server processes                *)
(***************************************************************************)
LOCK_TIMEOUT == 30000
PORT == 47778
LEGACY_PORT == 37778

Launchers == {1, 2}
Servers == {1, 2}

NoLock == [exists |-> FALSE, mtime |-> 0, owner |-> 0]
IdleLauncher == [pc |-> "idle", stale |-> FALSE, result |-> "none"]
NoServer == [state |-> "none", port |-> 0]

LockInit ==
  /\ clock = 0
  /\ lockFile = NoLock
  /\ pidFile = 0
  /\ lnch = [l \in Launchers |-> IdleLauncher]
  /\ srv = [s \in Servers |-> NoServer]

\* fetch(HEALTH_URL): a server answers on the launcher's port
isServerHealthy == \E s \in Servers : srv[s].state = "listening" /\ srv[s].port = PORT

isPortInUse(port) == \E s \in Servers : srv[s].state = "listening" /\ srv[s].port = port

isProcessAlive(pid) == pid \in Servers /\ srv[pid].state \in {"starting", "listening"}

\* the age test against twice the timeout
LockIsStaleLate(mtime, now) == now - mtime > 2 * LOCK_TIMEOUT

\* age > LOCK_TIMEOUT
LockIsStale(mtime, now) == now - mtime > LOCK_TIMEOUT

\* cleanupStalePidFile, then the quick health check
EnsureStart(l) ==
  /\ lnch[l].pc = "idle"
  /\ \A k \in Launchers : k < l => lnch[k].pc # "idle"
  /\ pidFile' = IF pidFile # 0 /\ ~isProcessAlive(pidFile) THEN 0 ELSE pidFile
  /\ lnch' = [lnch EXCEPT ![l] = IF isServerHealthy
                                 THEN [@ EXCEPT !.pc = "done", !.result = "true"]
                                 ELSE [@ EXCEPT !.pc = "check_pid"]]
  /\ UNCHANGED <<clock, lockFile, srv, calls, sideVars, searchVars, storeVars>>

\* readPidFile + isProcessAlive: wait for the process named there, or go on
EnsureCheckPid(l) ==
  /\ lnch[l].pc = "check_pid"
  /\ lnch' = [lnch EXCEPT ![l].pc = IF pidFile # 0 /\ isProcessAlive(pidFile)
                                    THEN "wait_pid" ELSE "stat"]
  /\ UNCHANGED <<clock, lockFile, pidFile, srv, calls, sideVars, searchVars, storeVars>>

\* waitForHealthWithTimeout: healthy in time, or the timeout passes
EnsureWaitPid(l) ==
  /\ lnch[l].pc = "wait_pid"
  /\ lnch' = [lnch EXCEPT ![l] = IF isServerHealthy
                                 THEN [@ EXCEPT !.pc = "done", !.result = "true"]
                                 ELSE [@ EXCEPT !.pc = "stat"]]
  /\ UNCHANGED <<clock, lockFile, pidFile, srv, calls, sideVars, searchVars, storeVars>>

\* acquireLock: existsSync, statSync and the age test
AcquireStat(l) ==
  /\ lnch[l].pc = "stat"
  /\ lnch' = [lnch EXCEPT ![l] =
                IF ~lockFile.exists THEN [@ EXCEPT !.pc = "create"]
                ELSE IF LockIsStale(lockFile.mtime, clock)
                     THEN [@ EXCEPT !.pc = "unlink", !.stale = TRUE]
                     ELSE [@ EXCEPT !.pc = "wait_other"]]
  /\ UNCHANGED <<clock, lockFile, pidFile, srv, calls, sideVars, searchVars, storeVars>>

\* acquireLock: unlinkSync; a file that is gone makes it throw into the catch
AcquireUnlink(l) ==
  /\ lnch[l].pc = "unlink"
  /\ IF lockFile.exists
     THEN /\ lockFile' = NoLock
          /\ lnch' = [lnch EXCEPT ![l].pc = "create"]
     ELSE /\ lnch' = [lnch EXCEPT ![l].pc = "wait_other"]
          /\ UNCHANGED lockFile
  /\ UNCHANGED <<clock, pidFile, srv, calls, sideVars, searchVars, storeVars>>

\* acquireLock: writeFileSync with flag 'wx'
AcquireCreate(l) ==
  /\ lnch[l].pc = "create"
  /\ IF lockFile.exists
     THEN /\ lnch' = [lnch EXCEPT ![l].pc = "wait_other"]
          /\ UNCHANGED lockFile
     ELSE /\ lockFile' = [exists |-> TRUE, mtime |-> clock, owner |-> l]
          /\ lnch' = [lnch EXCEPT ![l].pc = "recheck"]
  /\ UNCHANGED <<clock, pidFile, srv, calls, sideVars, searchVars, storeVars>>

\* the lock was not acquired: wait for the other process's server
EnsureWaitOther(l) ==
  /\ lnch[l].pc = "wait_other"
  /\ lnch' = [lnch EXCEPT ![l].pc = "done",
                          ![l].result = IF isServerHealthy THEN "true" ELSE "false"]
  /\ UNCHANGED <<clock, lockFile, pidFile, srv, calls, sideVars, searchVars, storeVars>>

\* under the lock: the health check again
EnsureRecheck(l) ==
  /\ lnch[l].pc = "recheck"
  /\ lnch' = [lnch EXCEPT ![l] = IF isServerHealthy
                                 THEN [@ EXCEPT !.pc = "release", !.result = "true"]
                                 ELSE [@ EXCEPT !.pc = "port_check"]]
  /\ UNCHANGED <<clock, lockFile, pidFile, srv, calls, sideVars, searchVars, storeVars>>

\* spawnDaemon: a detached server process on PORT, recorded in the PID file
spawnDaemon(servers, s) == [servers EXCEPT ![s] = [state |-> "starting", port |-> PORT]]

\* under the lock: isPortInUse, then spawnDaemon
EnsureSpawn(l) ==
  /\ lnch[l].pc = "port_check"
  /\ IF isPortInUse(PORT) \/ \A s \in Servers : srv[s].state # "none"
     THEN /\ lnch' = [lnch EXCEPT ![l].pc = "release", ![l].result = "false"]
          /\ UNCHANGED <<srv, pidFile>>
     ELSE LET s == CHOOSE x \in Servers :
                     srv[x].state = "none" /\ \A y \in Servers : srv[y].state = "none" => x <= y
          IN  /\ srv' = spawnDaemon(srv, s)
              /\ pidFile' = s
              /\ lnch' = [lnch EXCEPT ![l].pc = "wait_spawn"]
  /\ UNCHANGED <<clock, lockFile, calls, sideVars, searchVars, storeVars>>

EnsureWaitSpawn(l) ==
  /\ lnch[l].pc = "wait_spawn"
  /\ lnch' = [lnch EXCEPT ![l].pc = "release",
                          ![l].result = IF isServerHealthy THEN "true" ELSE "false"]
  /\ UNCHANGED <<clock, lockFile, pidFile, srv, calls, sideVars, searchVars, storeVars>>

\* finally { releaseLock() }: the file is unlinked if it exists
releaseLock(l) ==
  /\ lnch[l].pc = "release"
  /\ lockFile' = NoLock
  /\ lnch' = [lnch EXCEPT ![l].pc = "done"]
  /\ UNCHANGED <<clock, pidFile, srv, calls, sideVars, searchVars, storeVars>>

\* the launcher is killed while it holds the lock: no finally block runs
LauncherKilled(l) ==
  /\ lnch[l].pc \in {"recheck", "port_check", "wait_spawn", "release"}
  /\ lnch' = [lnch EXCEPT ![l].pc = "dead"]
  /\ UNCHANGED <<clock, lockFile, pidFile, srv, calls, sideVars, searchVars, storeVars>>

\* the operator runs server.ts directly, with or without ORACLE_PORT
ServerStart(s) ==
  /\ srv[s].state = "none"
  /\ \A k \in Servers : k < s => srv[k].state # "none"
  /\ \E port \in {PORT, LEGACY_PORT} :
       srv' = [srv EXCEPT ![s] = [state |-> "starting", port |-> port]]
  /\ UNCHANGED <<clock, lockFile, pidFile, lnch, calls, sideVars, searchVars, storeVars>>

\* server.listen(PORT): a bound port ends the process with EADDRINUSE
ServerListen(s) ==
  /\ srv[s].state = "starting"
  /\ srv' = [srv EXCEPT ![s].state = IF isPortInUse(srv[s].port) THEN "dead" ELSE "listening"]
  /\ UNCHANGED <<clock, lockFile, pidFile, lnch, calls, sideVars, searchVars, storeVars>>

\* SIGINT: db.close() and process.exit(0); or the process is killed
ServerExit(s) ==
  /\ srv[s].state \in {"starting", "listening"}
  /\ srv' = [srv EXCEPT ![s].state = "dead"]
  /\ UNCHANGED <<clock, lockFile, pidFile, lnch, calls, sideVars, searchVars, storeVars>>

\* time passes; acquireLock is synchronous, so no tick falls inside it
Tick ==
  /\ clock < MaxTicks * 15000
  /\ \A l \in Launchers : lnch[l].pc \notin {"unlink", "create"}
  /\ clock' = clock + 15000
  /\ UNCHANGED <<lockFile, pidFile, lnch, srv, calls, sideVars, searchVars, storeVars>>

\* the launchers for which acquireLock returned true and releaseLock has not
\* run yet
LockHolders == {l \in Launchers : lnch[l].pc \in {"recheck", "port_check", "wait_spawn", "release"}}

\* a launcher of an earlier session died holding the lock: its file is
\* still there when the launchers of this session start
LockLeftBehind ==
  /\ clock = 0
  /\ ~lockFile.exists
  /\ \A l \in Launchers : lnch[l].pc = "idle"
  /\ lockFile' = [exists |-> TRUE, mtime |-> clock, owner |-> 0]
  /\ UNCHANGED <<clock, pidFile, lnch, srv, calls, sideVars, searchVars, storeVars>>

\* time passes while no launcher holds the lock (a launcher holds it for
\* less than one tick)
TickUnheld == LockHolders = {} /\ Tick

(***************************************************************************)
(* Specifications                                                          *)
(***************************************************************************)
vars == <<storeVars, calls, sideVars, searchVars, lockVars>>

Init ==
  /\ StoreInit
  /\ SideInit
  /\ SearchInit
  /\ LockInit

IndexerQuiet(i) == idx[i].pc \in {"idle", "done", "failed"}
LearnerQuiet(l) == lrn[l].pc \in {"idle", "done"}
AllQuiet == (\A i \in Indexers : IndexerQuiet(i)) /\ (\A l \in Learners : LearnerQuiet(l))

\* every handler of one server process and the indexer CLI, one call at a time
Next ==
  \/ AllQuiet /\ IndexStart(1)
  \/ IndexClearFts(1)
  \/ IndexClearDocs(1)
  \/ IndexChromaInit(1)
  \/ IndexResonance(1)
  \/ IndexLearnings(1)
  \/ IndexRetrospectives(1)
  \/ IndexStoreMeta(1)
  \/ IndexStoreFts(1)
  \/ IndexChromaUpsert(1)
  \/ IndexFinish(1)
  \/ \E l \in Learners : AllQuiet /\ LearnStart(l)
  \/ \E l \in Learners : LearnWrite(l)
  \/ \E l \in Learners : LearnInsertDoc(l)
  \/ \E l \in Learners : LearnInsertFts(l)
  \/ \E l \in Learners : LearnLog(l)
  \/ \E l \in Learners : LearnReturn(l)
  \/ AllQuiet /\ HttpSearchOver(KeywordRequests)
  \/ AllQuiet /\ HttpConsult
  \/ AllQuiet /\ McpConsult
  \/ AllQuiet /\ createTrace
  \/ AllQuiet /\ distillTrace
  \/ AllQuiet /\ handleThreadMessage
  \/ AllQuiet /\ createDecision
  \/ AllQuiet /\ transitionStatus

Spec == Init /\ [][Next]_vars

\* the indexer CLI beside the servers' learn calls, statement by statement
ConcNext ==
  \/ IndexStart(1)
  \/ IndexClearFts(1)
  \/ IndexClearDocs(1)
  \/ IndexChromaInit(1)
  \/ IndexResonance(1)
  \/ IndexLearnings(1)
  \/ IndexRetrospectives(1)
  \/ IndexStoreMeta(1)
  \/ IndexStoreFts(1)
  \/ IndexChromaUpsert(1)
  \/ IndexFinish(1)
  \/ \E l \in Learners : (\A m \in Learners : LearnerQuiet(m)) /\ LearnStart(l)
  \/ \E l \in Learners : LearnWrite(l)
  \/ \E l \in Learners : LearnInsertDoc(l)
  \/ \E l \in Learners : LearnInsertFts(l)
  \/ \E l \in Learners : LearnLog(l)
  \/ \E l \in Learners : LearnReturn(l)
  \/ NextDay

ConcSpec == Init /\ [][ConcNext]_vars

\* the learn calls of the two servers overlapping each other and one run of
\* the indexer CLI
LearnersNext ==
  \/ IndexStart(1)
  \/ IndexClearFts(1)
  \/ IndexClearDocs(1)
  \/ IndexChromaInit(1)
  \/ IndexResonance(1)
  \/ IndexLearnings(1)
  \/ IndexRetrospectives(1)
  \/ IndexStoreMeta(1)
  \/ IndexStoreFts(1)
  \/ IndexChromaUpsert(1)
  \/ IndexFinish(1)
  \/ \E l \in Learners : LearnStart(l)
  \/ \E l \in Learners : LearnWrite(l)
  \/ \E l \in Learners : LearnInsertDoc(l)
  \/ \E l \in Learners : LearnInsertFts(l)
  \/ \E l \in Learners : LearnLog(l)
  \/ \E l \in Learners : LearnReturn(l)

LearnersSpec == Init /\ [][LearnersNext]_vars

\* queries of up to MaxQueryLen characters: a letter, two operators, a blank
QueryChars == {"a", "?", ".", " "}
SanitizerQueries == UNION {[1..n -> QueryChars] : n \in 1..MaxQueryLen}

\* keyword searches, one for every such query
SanitizeRequests ==
  {Request(q, "fts", "all", 2, 0, NULL, VectorDown(NULL)) : q \in SanitizerQueries}

\* keyword searches of either handler, one after the other
SanitizeNext ==
  \/ HttpSearchOver(SanitizeRequests)
  \/ McpSearchOver(SanitizeRequests)

SanitizeSpec == Init /\ [][SanitizeNext]_vars

\* createTrace calls of two tool-server processes, statement by statement
TraceNext ==
  \/ \E p \in Tracers : TraceInsert(p)
  \/ \E p \in Tracers : TraceReadChildren(p)
  \/ \E p \in Tracers : TraceWriteChildren(p)

TraceSpec == Init /\ [][TraceNext]_vars

\* launchers that start together, with or without a lock file left behind
AcquireNext ==
  \/ LockLeftBehind
  \/ \E l \in Launchers : EnsureStart(l)
  \/ \E l \in Launchers : EnsureCheckPid(l)
  \/ \E l \in Launchers : EnsureWaitPid(l)
  \/ \E l \in Launchers : AcquireStat(l)
  \/ \E l \in Launchers : AcquireUnlink(l)
  \/ \E l \in Launchers : AcquireCreate(l)
  \/ \E l \in Launchers : EnsureWaitOther(l)
  \/ \E l \in Launchers : EnsureRecheck(l)
  \/ \E l \in Launchers : EnsureSpawn(l)
  \/ \E l \in Launchers : EnsureWaitSpawn(l)
  \/ \E l \in Launchers : releaseLock(l)
  \/ \E s \in Servers : ServerListen(s)
  \/ TickUnheld

AcquireSpec == Init /\ [][AcquireNext]_vars

\* learn calls one after the other, any of whose inserts may fail
FailNext ==
  \/ \E l \in Learners : AllQuiet /\ LearnStart(l)
  \/ \E l \in Learners : LearnWrite(l)
  \/ \E l \in Learners : LearnInsertDoc(l)
  \/ \E l \in Learners : LearnInsertDocFails(l)
  \/ \E l \in Learners : LearnInsertFts(l)
  \/ \E l \in Learners : LearnInsertFtsFails(l)
  \/ \E l \in Learners : LearnLog(l)
  \/ \E l \in Learners : LearnReturn(l)
  \/ NextDay

FailSpec == Init /\ [][FailNext]_vars

\* the /file route and what happens on the host's disk
FileNext ==
  \/ DiskCreate
  \/ DiskSymlink
  \/ HttpFile

FileSpec == Init /\ [][FileNext]_vars

\* two runs of the indexer CLI, statement by statement
IndexersNext ==
  \/ \E i \in Indexers : IndexStart(i)
  \/ \E i \in Indexers : IndexClearFts(i)
  \/ \E i \in Indexers : IndexClearDocs(i)
  \/ \E i \in Indexers : IndexChromaInit(i)
  \/ \E i \in Indexers : IndexResonance(i)
  \/ \E i \in Indexers : IndexLearnings(i)
  \/ \E i \in Indexers : IndexRetrospectives(i)
  \/ \E i \in Indexers : IndexStoreMeta(i)
  \/ \E i \in Indexers : IndexStoreFts(i)
  \/ \E i \in Indexers : IndexChromaUpsert(i)
  \/ \E i \in Indexers : IndexFinish(i)

IndexersSpec == Init /\ [][IndexersNext]_vars

\* launchers, the lock file and server processes
LockNext ==
  \/ \E l \in Launchers : EnsureStart(l)
  \/ \E l \in Launchers : EnsureCheckPid(l)
  \/ \E l \in Launchers : EnsureWaitPid(l)
  \/ \E l \in Launchers : AcquireStat(l)
  \/ \E l \in Launchers : AcquireUnlink(l)
  \/ \E l \in Launchers : AcquireCreate(l)
  \/ \E l \in Launchers : EnsureWaitOther(l)
  \/ \E l \in Launchers : EnsureRecheck(l)
  \/ \E l \in Launchers : EnsureSpawn(l)
  \/ \E l \in Launchers : EnsureWaitSpawn(l)
  \/ \E l \in Launchers : releaseLock(l)
  \/ \E l \in Launchers : LauncherKilled(l)
  \/ \E s \in Servers : ServerStart(s)
  \/ \E s \in Servers : ServerListen(s)
  \/ \E s \in Servers : ServerExit(s)
  \/ Tick

LockSpec == Init /\ [][LockNext]_vars

\* first-page searches of both servers over a store filled by indexer runs
\* and learn calls
SearchNext ==
  \/ AllQuiet /\ IndexStart(1)
  \/ IndexClearFts(1)
  \/ IndexClearDocs(1)
  \/ IndexChromaInit(1)
  \/ IndexResonance(1)
  \/ IndexLearnings(1)
  \/ IndexRetrospectives(1)
  \/ IndexStoreMeta(1)
  \/ IndexStoreFts(1)
  \/ IndexChromaUpsert(1)
  \/ IndexFinish(1)
  \/ \E l \in Learners : AllQuiet /\ LearnStart(l)
  \/ \E l \in Learners : LearnWrite(l)
  \/ \E l \in Learners : LearnInsertDoc(l)
  \/ \E l \in Learners : LearnInsertFts(l)
  \/ \E l \in Learners : LearnLog(l)
  \/ \E l \in Learners : LearnReturn(l)
  \/ AllQuiet /\ HttpSearchOver(FallbackRequests)
  \/ AllQuiet /\ McpSearchOver(FallbackRequests)

SearchSpec == Init /\ [][SearchNext]_vars

\* searches with a project filter over a store holding learnings of a project
ProjectNext ==
  \/ AllQuiet /\ IndexStart(1)
  \/ IndexClearFts(1)
  \/ IndexClearDocs(1)
  \/ IndexChromaInit(1)
  \/ IndexResonance(1)
  \/ IndexLearnings(1)
  \/ IndexRetrospectives(1)
  \/ IndexStoreMeta(1)
  \/ IndexStoreFts(1)
  \/ IndexChromaUpsert(1)
  \/ IndexFinish(1)
  \/ \E l \in Learners : AllQuiet /\ LearnStart(l)
  \/ \E l \in Learners : LearnWrite(l)
  \/ \E l \in Learners : LearnInsertDoc(l)
  \/ \E l \in Learners : LearnInsertFts(l)
  \/ \E l \in Learners : LearnLog(l)
  \/ \E l \in Learners : LearnReturn(l)
  \/ AllQuiet /\ HttpSearchOver(ProjectRequests)
  \/ AllQuiet /\ McpSearchOver(ProjectRequests)

ProjectSpec == Init /\ [][ProjectNext]_vars

\* paged searches of both servers
PageNext ==
  \/ AllQuiet /\ IndexStart(1)
  \/ IndexClearFts(1)
  \/ IndexClearDocs(1)
  \/ IndexChromaInit(1)
  \/ IndexResonance(1)
  \/ IndexLearnings(1)
  \/ IndexRetrospectives(1)
  \/ IndexStoreMeta(1)
  \/ IndexStoreFts(1)
  \/ IndexChromaUpsert(1)
  \/ IndexFinish(1)
  \/ \E l \in Learners : AllQuiet /\ LearnStart(l)
  \/ \E l \in Learners : LearnWrite(l)
  \/ \E l \in Learners : LearnInsertDoc(l)
  \/ \E l \in Learners : LearnInsertFts(l)
  \/ \E l \in Learners : LearnLog(l)
  \/ \E l \in Learners : LearnReturn(l)
  \/ AllQuiet /\ HttpSearchOver(PageRequests)
  \/ AllQuiet /\ McpSearchOver(PageRequests)

PageSpec == Init /\ [][PageNext]_vars

\* first pages of searches for a plain word, over every rank and distance
ScoreRequests ==
  {r \in Requests : r.offset = 0 /\ r.limit = 2 /\ r.type = "all" /\ r.query = <<"a">>
                    /\ r.project = NULL}

\* scored searches of both servers
ScoreNext ==
  \/ AllQuiet /\ IndexStart(1)
  \/ IndexClearFts(1)
  \/ IndexClearDocs(1)
  \/ IndexChromaInit(1)
  \/ IndexResonance(1)
  \/ IndexLearnings(1)
  \/ IndexRetrospectives(1)
  \/ IndexStoreMeta(1)
  \/ IndexStoreFts(1)
  \/ IndexChromaUpsert(1)
  \/ IndexFinish(1)
  \/ \E l \in Learners : AllQuiet /\ LearnStart(l)
  \/ \E l \in Learners : LearnWrite(l)
  \/ \E l \in Learners : LearnInsertDoc(l)
  \/ \E l \in Learners : LearnInsertFts(l)
  \/ \E l \in Learners : LearnLog(l)
  \/ \E l \in Learners : LearnReturn(l)
  \/ AllQuiet /\ HttpSearchOver(ScoreRequests)
  \/ AllQuiet /\ McpSearchOver(ScoreRequests)

ScoreSpec == Init /\ [][ScoreNext]_vars

\* first pages of keyword searches for a plain word, over every type
RankedRequests ==
  {r \in Requests : r.mode = "fts" /\ r.offset = 0 /\ r.limit = 2 /\ r.type = "all"
                    /\ r.query = <<"a">> /\ r.project = NULL /\ r.vector.down}

\* keyword searches of both servers over an index that is rebuilt and learnt to
RankNext ==
  \/ AllQuiet /\ IndexStart(1)
  \/ IndexClearFts(1)
  \/ IndexClearDocs(1)
  \/ IndexChromaInit(1)
  \/ IndexResonance(1)
  \/ IndexLearnings(1)
  \/ IndexRetrospectives(1)
  \/ IndexStoreMeta(1)
  \/ IndexStoreFts(1)
  \/ IndexChromaUpsert(1)
  \/ IndexFinish(1)
  \/ \E l \in Learners : AllQuiet /\ LearnStart(l)
  \/ \E l \in Learners : LearnWrite(l)
  \/ \E l \in Learners : LearnInsertDoc(l)
  \/ \E l \in Learners : LearnInsertFts(l)
  \/ \E l \in Learners : LearnLog(l)
  \/ \E l \in Learners : LearnReturn(l)
  \/ AllQuiet /\ HttpSearchRanked(RankedRequests, RankRange)
  \/ AllQuiet /\ McpSearchRanked(RankedRequests, RankRange)

RankSpec == Init /\ [][RankNext]_vars

(***************************************************************************)
(* Properties                                                              *)
(***************************************************************************)
TraceIdsKept ==
  \A k \in 1..Len(rows["trace_log"]) :
     /\ k <= Len(rows'["trace_log"])
     /\ rows'["trace_log"][k].trace_id = rows["trace_log"][k].trace_id

\* every row of the step's first state is still there in its second state:
\* documents by primary key, the other tables by rowid
RowsKept ==
  /\ DocIds \subseteq {r.id : r \in oracle_documents'}
  /\ \A t \in Tables : Len(rows'[t]) >= Len(rows[t])
  /\ TraceIdsKept

\* the indexer's DELETE FROM oracle_documents
IsClearStep == \E i \in Indexers : idx[i].pc = "clear_docs" /\ idx'[i].pc = "chroma_init"

\* C1: no step of any operation (search, consult, learn, trace create and
\* distill, thread and decision writes, telemetry) removes a row from
\* oracle_documents, forum_messages, a log table, trace_log or decisions;
\* the one step that removes rows is the indexer's clear.
C1_AppendOnly == [][RowsKept \/ IsClearStep]_vars

\* an index run, an HTTP learn and a consult have all written, and all of
\* their rows are in place
C1_Witness ==
  /\ Cardinality(oracle_documents) >= 3
  /\ Len(rows["learn_log"]) = 1
  /\ Len(rows["consult_log"]) = 1

\* C2: when an indexing run completes successfully, the ids of
\* oracle_documents and of oracle_fts are the same set and oracle_fts holds
\* exactly one row for every document.
C2_IndexParity ==
  [][\A i \in Indexers :
       idx[i].pc = "finish" /\ idx'[i].pc = "done"
         => /\ DocIds' = FtsIds'
            /\ \A id \in DocIds' : CopiesIn(id, oracle_fts') = 1]_vars

\* C3: a learn call that finds <date>_<slug>.md already there fails with
\* "File already exists", and the step leaves the files, oracle_documents,
\* oracle_fts and every log table as they were.
C3_ExistingFileRejected ==
  [][\A l \in Learners :
       /\ LearnerQuiet(l) /\ lrn'[l] # lrn[l]
            /\ (\E f \in files.learnings : f.stem = lrn'[l].stem)
            => lrn'[l].pc = "done" /\ lrn'[l].result = "File already exists"
       /\ lrn'[l] # lrn[l] /\ lrn'[l].result = "File already exists"
            => UNCHANGED <<files, oracle_documents, oracle_fts, rows>>]_vars

\* a call was rejected and the file it collided with is on disk, once
C3_Witness ==
  \E l \in Learners :
     /\ lrn[l].result = "File already exists"
     /\ Cardinality({f \in files.learnings : f.stem = lrn[l].stem}) = 1

\* C4: at the step where learn returns success for id X, the markdown file,
\* the oracle_documents row X and an oracle_fts row X all exist.
C4_SuccessMeansStored ==
  [][\A l \in Learners :
       lrn[l].pc = "return" /\ lrn'[l].result = "success"
         => /\ \E f \in files'.learnings : f.stem = lrn[l].stem
            /\ LearnId(lrn[l].stem) \in {r.id : r \in oracle_documents'}
            /\ CopiesIn(LearnId(lrn[l].stem), oracle_fts') >= 1]_vars

\* C5: once a learn call has returned success and the indexer run has
\* finished, the learned file has a document in oracle_documents and in
\* oracle_fts, and no oracle_fts row is without its oracle_documents row.
C5_LearnSurvivesReindex ==
  \A l \in Learners :
     lrn[l].pc = "done" /\ lrn[l].result = "success"
       /\ (\A m \in Learners : LearnerQuiet(m)) /\ idx[1].pc = "done"
     => /\ \E r \in oracle_documents :
             r.source_file = LearnFileName(lrn[l].stem) /\ r.id \in FtsIds
        /\ FtsIds \subseteq DocIds

\* C6: a run that has terminated leaves is_indexing = false and completed_at
\* set; after success progress_current is the total, after an exception
\* error holds the message.
C6_RunEndsClean ==
  \A i \in Indexers :
     /\ idx[i].pc \in {"done", "failed"} /\ AllQuiet
          => ~indexing_status.is_indexing /\ indexing_status.completed_at # NULL_TS
     /\ idx[i].pc = "done" /\ AllQuiet
          => indexing_status.progress_current = indexing_status.progress_total
     /\ idx[i].pc = "failed" /\ AllQuiet => indexing_status.error # NULL

ClearPopulate == {"clear_fts", "clear_docs", "chroma_init", "scan_resonance", "scan_learnings",
                  "scan_retros", "store_meta", "store_fts", "chroma_upsert"}

\* C7: at most one indexing run is in its clear / populate phase.
C7_IndexerMutex == Cardinality({i \in Indexers : idx[i].pc \in ClearPopulate}) <= 1

\* C8: at most one HTTP server is live on the data directory.
C8_OneServer == Cardinality({s \in Servers : srv[s].state = "listening"}) <= 1

StaleNow == lockFile.exists /\ clock - lockFile.mtime > LOCK_TIMEOUT

\* C9: a lock file older than 30 s does not block: the acquire that looks at
\* it takes the stale branch, its unlink removes the file, its exclusive
\* create on the free name makes it the holder, and no acquire returns
\* "not acquired" while the lock file in place is stale.
C9_StaleLockTaken ==
  [][\A l \in Launchers :
       /\ lnch[l].pc = "stat" /\ lnch'[l].pc # "stat" /\ StaleNow => lnch'[l].pc = "unlink"
       /\ lnch[l].pc = "unlink" /\ lnch'[l].pc = "create" => ~lockFile'.exists
       /\ lnch[l].pc = "create" /\ lnch'[l].pc # "create" /\ ~lockFile.exists
            => lockFile'.exists /\ lockFile'.owner = l /\ lnch'[l].pc = "recheck"
       /\ lnch[l].pc \in {"stat", "unlink", "create"} /\ lnch'[l].pc = "wait_other"
            => ~(lockFile'.exists /\ clock' - lockFile'.mtime > LOCK_TIMEOUT)]_vars

\* a launcher died holding the lock, and another one holds it now after
\* having found the file stale
C9_Witness ==
  \E l, d \in Launchers :
     /\ lnch[d].pc = "dead"
     /\ lnch[l].stale /\ lnch[l].pc = "recheck"
     /\ lockFile.exists /\ lockFile.owner = l

RECURSIVE AllFromFts(_)
AllFromFts(results) ==
  results = <<>> \/ (Head(results).source = "fts" /\ AllFromFts(Tail(results)))

\* C10: a search in a mode other than fts that finds the vector backend
\* unreachable still succeeds with keyword results only, carries the warning
\* "Vector search unavailable: <cause>. Using FTS5 only.", and answers with
\* the requested mode.
C10_VectorFallback ==
  (/\ search.resp.variant # "none" /\ search.req.mode # "fts" /\ search.req.vector.down
   /\ KeywordError(search.resp.variant, search.req.query, search.req.mode) = NoError)
    => /\ search.resp.ok
       /\ AllFromFts(search.resp.results)
       /\ search.resp.warning = Unavailable(search.req.vector.cause)
       /\ search.resp.mode = search.req.mode

\* C11: a search in a mode other than vector whose keyword statement raises
\* fails with that error, and answers with no result at all, whatever the
\* vector backend would have returned.
C11_KeywordErrorPropagates ==
  (/\ search.resp.variant # "none" /\ search.req.mode # "vector"
   /\ FtsSyntaxError(IF search.resp.variant = "mcp" THEN sanitizeFtsQuery(search.req.query)
                     ELSE safeQuery(search.req.query)))
    => /\ ~search.resp.ok
       /\ search.resp.error # NoError
       /\ search.resp.results = <<>>

\* a hybrid search failed on its keyword statement although the vector
\* backend had neighbours to offer
C11_Witness ==
  /\ search.req.mode = "hybrid" /\ search.req.query = <<"?", " ">>
  /\ ~search.req.vector.down /\ search.req.vector.hits # {}
  /\ search.resp.error = SyntaxError

\* C12: every document a search returns has the project the search asked
\* for or no project; a search without a project returns universal documents
\* only.  (A vector hit without an oracle_documents row has no project.)
C12_ProjectFilter ==
  [][search' # search /\ search'.resp.ok
       => \A k \in 1..Len(search'.resp.results) :
            LET id == search'.resp.results[k].id
            IN  id \in DocIds => ProjectVisible(DocOf(id).project, search'.req.project)]_vars

\* the ids on the page a handler returns for the same request at offset
\* k * limit
PageAt(variant, req, rk, k) ==
  LET at == [req EXCEPT !.offset = k * req.limit]
      results == IF variant = "http" THEN HttpSearchResponse(at, rk).results
                 ELSE McpSearchResponse(at, rk).results
  IN  [i \in 1..Len(results) |-> results[i].id]

\* C13: for the corpus and query of a search, the pages at offsets 0, limit,
\* 2 * limit, ... hold no id twice, and in a keyword search every matching
\* document is on one of them.
C13_PagesPartition ==
  [][search' # search /\ search'.resp.ok
       => LET v == search'.resp.variant
              r == search'.req
              last == Cardinality(JoinedIds)
              pages == [k \in 0..last |-> PageAt(v, r, search'.rk, k)]
              matched == IF v = "http" THEN HttpFtsIds(r.type, r.project) ELSE McpFtsIds(r.type)
          IN  /\ \A k1, k2 \in 0..last :
                   \A i \in 1..Len(pages[k1]), j \in 1..Len(pages[k2]) :
                      pages[k1][i] = pages[k2][j] => k1 = k2 /\ i = j
              /\ r.mode = "fts"
                   => \A id \in matched :
                        \E k \in 0..last : \E i \in 1..Len(pages[k]) : pages[k][i] = id]_vars

\* C14: every result of a search has a score between 0 and 1 (scores are in
\* thousandths), for every keyword rank <= 0 and every distance in [0, 2].
C14_ScoreInUnitInterval ==
  \A k \in 1..Len(search.resp.results) :
     search.resp.results[k].score >= 0 /\ search.resp.results[k].score <= 1000

Holds(hits, id) == \E i \in 1..Len(hits) : hits[i].id = id

\* the score of id in a list of hits that holds it
ScoreIn(hits, id) == hits[CHOOSE i \in 1..Len(hits) : hits[i].id = id].score

\* C15: an id found by both backends is returned as hybrid with score
\* min(1, (0.5 * fts_score + 0.5 * v) * 1.10); an id found by one backend
\* keeps that backend's tag and scores half its score; the results are in
\* descending order of score.
C15_FusedScore ==
  [][search' # search /\ search'.resp.ok
       => LET v == search'.resp.variant
              r == search'.req
              res == search'.resp.results
              fts == IF v = "http" THEN HttpFtsResults(r, search'.rk)
                     ELSE McpFtsResults(r, search'.rk)
              vec == IF v = "http" THEN HttpVectorResults(r)
                     ELSE NormalizeVector(McpVectorSearch(r).results)
          IN  /\ \A k \in 1..Len(res) :
                   LET f == ScoreIn(fts, res[k].id)
                       s == ScoreIn(vec, res[k].id)
                   IN  CASE Holds(fts, res[k].id) /\ Holds(vec, res[k].id) ->
                              /\ res[k].source = "hybrid"
                              /\ res[k].score = Min(1000, ((5 * f + 5 * s) * 11) \div 100)
                         [] Holds(fts, res[k].id) ->
                              res[k].source = "fts" /\ res[k].score = (5 * f) \div 10
                         [] OTHER -> res[k].source = "vector" /\ res[k].score = (5 * s) \div 10
              /\ \A k \in 1..(Len(res) - 1) : res[k].score >= res[k + 1].score]_vars

\* C16: a decision's status changes only along an edge of the transition
\* graph, and a requested transition outside the graph (closed -> pending,
\* say) is answered with a domain error and leaves the decisions as they were
C16_TransitionGraph ==
  [][/\ \A k \in 1..Len(rows["decisions"]) :
          /\ k <= Len(rows'["decisions"])
          /\ \/ rows'["decisions"][k].status = rows["decisions"][k].status
             \/ rows'["decisions"][k].status \in DecisionEdges[rows["decisions"][k].status]
     /\ (/\ reply'.n # reply.n
         /\ reply'.op = "transitionStatus"
         /\ reply'.to \notin DecisionEdges[reply'.from])
        => /\ reply'.error # NoError
           /\ rows'["decisions"] = rows["decisions"]]_vars

\* a closed decision asked to go back to pending: rejected, still closed
C16_Witness ==
  /\ reply.op = "transitionStatus"
  /\ reply.from = "closed"
  /\ reply.to = "pending"
  /\ reply.error = InvalidTransition
  /\ rows["decisions"][reply.id].status = "closed"

\* the trace reached from id by n parent links (0 once the chain has ended)
RECURSIVE Ancestor(_, _)
Ancestor(id, n) ==
  IF n = 0 \/ id \notin TraceIds THEN (IF id \in TraceIds THEN id ELSE 0)
  ELSE Ancestor(TraceRow(id).parent_trace_id, n - 1)

C18_DistillPromotes ==
  [][(/\ reply'.n # reply.n
      /\ reply'.op = "distillTrace"
      /\ reply'.promoteToLearning)
     => \E k \in 1..Len(rows'["trace_log"]) :
          LET t == rows'["trace_log"][k]
          IN  /\ t.trace_id = reply'.id
              /\ t.status = "distilled"
              /\ t.awakening \in Awakenings
              /\ t.distilled_at # NULL_TS
              /\ reply'.learningId # NULL
              /\ t.distilled_to_id # NULL
              /\ \E d \in oracle_documents' : d.id = t.distilled_to_id /\ d.type = "learning"]_vars

IsUnder(path, root) == Len(root) <= Len(path) /\ SubSeq(path, 1, Len(root)) = root

\* C20: /file returns content only of a file whose resolved location lies
\* inside the resolved repo root, and a request that resolves outside the
\* root (by .. names, an absolute path or a symbolic link) is rejected
C20_FileInsideRoot ==
  /\ served.result.content # NoContent => IsUnder(served.result.content, REPO_ROOT)
  /\ (served.path # <<>> /\ ~IsUnder(served.result.realPath, REPO_ROOT))
     => served.result.error # NoError /\ served.result.content = NoContent

\* C21: a search call that answers, on either protocol, appends exactly one
\* row to search_log and, for each result it returns, exactly one
\* document_access row with access_type "search"
C21_SearchLogged ==
  [][(search' # search /\ search'.resp.ok)
     => /\ Len(rows'["search_log"]) = Len(rows["search_log"]) + 1
        /\ rows'["document_access"] =
             rows["document_access"]
             \o [k \in 1..Len(search'.resp.results) |->
                   [document_id |-> search'.resp.results[k].id, access_type |-> "search"]]]_vars

\* the operators of the keyword index's query grammar
FtsOperators == {"?", "*", "+", "-", "(", ")", "^", "~", "\"", "'", ":", ".", "/"}

\* each operator replaced by a blank, blanks collapsed and trimmed; the
\* query itself when nothing is left
Sanitized(q) ==
  LET stripped == Trim(CollapseSpaces(BlankOut(q, FtsOperators)))
  IN  IF stripped = <<>> THEN q ELSE stripped

\* C22: on every search path the string handed to the keyword index is the
\* query with each of ? * + - ( ) ^ ~ " ' : . / replaced by a blank and the
\* blanks collapsed, and the query unchanged when that leaves nothing
C22_KeywordQuerySanitized ==
  search.resp.variant # "none"
  => KeywordQuery(search.resp.variant, search.req.query) = Sanitized(search.req.query)

\* C23: sanitizing a sanitized query changes nothing, also when stripping
\* leaves nothing and the query itself is what the sanitizer returns
C23_SanitizeIdempotent ==
  search.resp.variant # "none"
  => LET v == search.resp.variant
         q == search.req.query
     IN  KeywordQuery(v, KeywordQuery(v, q)) = KeywordQuery(v, q)

\* the tool server was asked for a query of operators and blanks only: the
\* sanitizer gave the query back and the keyword index refused it
C23_Witness ==
  /\ search.resp.variant = "mcp"
  /\ search.req.query = <<"?", " ", ".">>
  /\ Trim(CollapseSpaces(BlankOut(search.req.query, McpSpecials))) = <<>>
  /\ sanitizeFtsQuery(search.req.query) = search.req.query
  /\ search.resp.error = SyntaxError

\* the processes in the middle of a sequence of writes to the store: the
\* indexer CLI between its status write and its last insert, a server whose
\* learn call has inserted its oracle_documents row and has rows to go
MidWrite ==
  {<<"indexer", i>> : i \in {j \in Indexers : idx[j].pc \in ClearPopulate}}
    \cup {<<"server", l>> : l \in {m \in Learners : lrn[m].pc \in {"insert_fts", "log"}}}

\* C24: at most one process is in the middle of writing to the store, so the
\* write sequences of two processes never interleave
C24_OneWriter == Cardinality(MidWrite) <= 1

\* the traces whose parent_trace_id is id, in the order of their creation
RECURSIVE ChildrenOf(_, _)
ChildrenOf(id, k) ==
  IF k > Len(rows["trace_log"]) THEN <<>>
  ELSE (IF rows["trace_log"][k].parent_trace_id = id
        THEN <<rows["trace_log"][k].trace_id>> ELSE <<>>) \o ChildrenOf(id, k + 1)

\* C25: when no createTrace call is under way, also after two children of
\* one parent were created at the same time, a parent's child_trace_ids
\* holds exactly the traces whose parent_trace_id is that parent
C25_ChildrenMatchParents ==
  (\A p \in Tracers : trc[p].pc = "idle")
  => \A id \in TraceIds :
        /\ Elems(TraceRow(id).child_trace_ids) = Elems(ChildrenOf(id, 1))
        /\ Len(TraceRow(id).child_trace_ids) = Len(ChildrenOf(id, 1))

\* C26: at most one process holds oracle-http.lock, also when several find
\* the same stale file, and releaseLock never removes a lock file that
\* another process holds
C26_LockExclusive ==
  [][/\ Cardinality(LockHolders') <= 1
     /\ \A l \in Launchers :
          (lnch[l].pc = "release" /\ lnch'[l].pc = "done" /\ lockFile.exists)
          => lockFile.owner = l]_vars

\* C27: of the ensureServerRunning calls that run together while no server
\* is alive at most one spawns a daemon: a launcher spawns only when no
\* server process, starting or listening, is there already
C27_OneSpawn ==
  [][\A l \in Launchers :
       (lnch[l].pc = "port_check" /\ lnch'[l].pc = "wait_spawn")
       => \A s \in Servers : ~isProcessAlive(s)]_vars

\* C28: of two learn calls for the same date and slug, with no indexer run
\* beside them, exactly one succeeds and the other fails with "File already
\* exists"; afterwards the id has exactly one oracle_documents row and one
\* oracle_fts row
C28_OneLearnWins ==
  (/\ calls = 2
   /\ \A i \in Indexers : idx[i].pc = "idle"
   /\ \A l \in Learners : lrn[l].pc = "done"
   /\ lrn["http"].stem = lrn["mcp"].stem)
  => /\ {lrn[l].result : l \in Learners} = {"success", "File already exists"}
     /\ LearnId(lrn["http"].stem) \in DocIds
     /\ FtsCount(LearnId(lrn["http"].stem)) = 1

\* C29: a learn call that returned an error after the file-exists check
\* has left nothing behind: no markdown file, no oracle_documents row and no
\* oracle_fts row of its id
C29_LearnAllOrNothing ==
  \A l \in Learners :
     (lrn[l].pc = "done" /\ lrn[l].result \in {"insert failed", "constraint failed"})
     => /\ ~existsSync(lrn[l].stem)
        /\ LearnId(lrn[l].stem) \notin DocIds
        /\ FtsCount(LearnId(lrn[l].stem)) = 0

\* C30: in a keyword search, a document whose rank is more negative than
\* another's has a score that is not lower and is not placed after it.
C30_RankingKept ==
  search.resp.ok /\ search.req.mode = "fts"
  => \A i, j \in 1..Len(search.resp.results) :
        LET x == search.resp.results[i]
            y == search.resp.results[j]
        IN  search.rk[x.id] < search.rk[y.id] => x.score >= y.score /\ i < j

====
